---- MODULE Spec2Model ----
(***************************************************************************)
(* A model of the MADE engine's PMV movie player (engines/made):           *)
(*   - ValueReader, rleDecompress, decompressImage, decompressMovieImage   *)
(*     (graphics.cpp)                                                      *)
(*   - PmvPlayer::load / decode_frame / close / play / decompressPalette   *)
(*     (pmvplayer.cpp)                                                     *)
(* Bytes are the integers 0..255; a buffer is a sequence of bytes and a    *)
(* pointer into it is a 1-based index.                                     *)
(***************************************************************************)
EXTENDS Integers, Sequences, FiniteSets, TLC

Byte == 0..255

\* x >> 4 and x & 0x0F on a byte
HighNibble(b) == (b \div 16) % 16
LowNibble(b) == b % 16

\* "ptr[0]" of a C buffer: reading outside the sequence is undefined
\* behaviour; the model marks it with the value -1, which is not a byte.
At(buf, i) == IF i >= 1 /\ i <= Len(buf) THEN buf[i] ELSE -1

\* The one element of a one-element set: Only({f(x) : x \in {e}}) is f(e)
\* with e worked out once.
Only(S) == CHOOSE x \in S : TRUE

(***************************************************************************)
(* ValueReader (graphics.cpp 33-64)                                        *)
(***************************************************************************)

\* ValueReader::ValueReader(source, nibbleMode): the constructor is declared
\* in made/graphics.h, which is not part of the sources at hand.  The
\* specification equates the parity of a fresh reader with the parity
\* resetNibbleSwitch() leaves (both "start at a byte"), so the fresh reader
\* carries the switch value resetNibbleSwitch() writes.
ValueReader(source, nibbleMode) ==
    [buffer |-> source, pos |-> 1, nibbleMode |-> nibbleMode, nibbleSwitch |-> FALSE]

\* A plausible slip in readPixel(): the two branches exchanged, so that the
\* high nibble comes first and the pointer moves after the low nibble.
readPixelSwapped(r) ==
    IF r.nibbleMode
    THEN IF r.nibbleSwitch
         THEN [r |-> [r EXCEPT !.pos = @ + 1, !.nibbleSwitch = ~@],
               value |-> LowNibble(At(r.buffer, r.pos))]
         ELSE [r |-> [r EXCEPT !.nibbleSwitch = ~@],
               value |-> HighNibble(At(r.buffer, r.pos))]
    ELSE [r |-> [r EXCEPT !.pos = @ + 1], value |-> At(r.buffer, r.pos)]

\* byte ValueReader::readPixel(): the reader after the call, and the value.
readPixel(r) ==
    IF r.nibbleMode
    THEN IF r.nibbleSwitch
         THEN [r |-> [r EXCEPT !.pos = @ + 1, !.nibbleSwitch = ~@],
               value |-> HighNibble(At(r.buffer, r.pos))]
         ELSE [r |-> [r EXCEPT !.nibbleSwitch = ~@],
               value |-> LowNibble(At(r.buffer, r.pos))]
    ELSE [r |-> [r EXCEPT !.pos = @ + 1], value |-> At(r.buffer, r.pos)]

\* uint16 ValueReader::readUint16(): little endian, two bytes.
readUint16(r) ==
    [r |-> [r EXCEPT !.pos = @ + 2],
     value |-> At(r.buffer, r.pos) + 256 * At(r.buffer, r.pos + 1)]

\* uint32 ValueReader::readUint32(): little endian, four bytes.  The value is
\* kept as its four bytes, lowest first (it does not fit the model checker's
\* integers): byte k holds the bits 8k .. 8k + 7.
readUint32(r) ==
    [r |-> [r EXCEPT !.pos = @ + 4],
     value |-> <<At(r.buffer, r.pos), At(r.buffer, r.pos + 1),
                 At(r.buffer, r.pos + 2), At(r.buffer, r.pos + 3)>>]

\* A plausible slip in resetNibbleSwitch(): the switch is set instead of
\* cleared.
resetNibbleSwitchSet(r) == [r EXCEPT !.nibbleSwitch = TRUE]

\* void ValueReader::resetNibbleSwitch()
resetNibbleSwitch(r) == [r EXCEPT !.nibbleSwitch = FALSE]


(***************************************************************************)
(* rleDecompress (graphics.cpp 66-89)                                      *)
(***************************************************************************)

\* A value stored in a variable of type byte.
ToByte(x) == x % 256

\* "val++" on the byte val of a copy record (graphics.cpp 75).
literalRun(val) == ToByte(val + 1)

\* A plausible slip in the repeat branch: 256 - val instead of 257 - val.
repeatRunShort(val) == ToByte(256 - val)

\* "val = 257 - val" on the byte val of a repeat record (graphics.cpp 81).
repeatRun(val) == ToByte(257 - val)

\* The loop of rleDecompress().  source is the memory the stream lies in, pos
\* the cursor "source", end the position "end" points at; o collects the
\* bytes written through "o" and runs the value of val at each memcpy/memset.
\* The result carries the final cursor.
RECURSIVE rleLoop(_, _, _, _, _)
rleLoop(source, pos, end, o, runs) ==
    IF ~(pos < end)
    THEN [written |-> o, source |-> pos, runs |-> runs]
    ELSE IF At(source, pos) < 128
         THEN LET val == literalRun(At(source, pos))
              IN rleLoop(source, pos + 1 + val, end,
                         o \o [i \in 1..val |-> At(source, pos + i)],
                         Append(runs, val))
         ELSE LET val == repeatRun(At(source, pos))
              IN rleLoop(source, pos + 2, end,
                         o \o [i \in 1..val |-> At(source, pos + 1)],
                         Append(runs, val))

\* static byte *rleDecompress(source, end, maxSize): dest holds maxSize bytes
\* and nothing checks the writes against it; overflow tells that bytes were
\* written behind dest[maxSize - 1].
rleDecompress(source, pos, end, maxSize) ==
    LET res == rleLoop(source, pos, end, <<>>, <<>>)
    IN [written |-> res.written, source |-> res.source, runs |-> res.runs,
        maxSize |-> maxSize, overflow |-> Len(res.written) > maxSize]

\* The streams handed to rleDecompress() are built from records: a copy
\* record of n bytes (base, base + 0x11, ...) or a repeat record of n times b.
LiteralBytes(n, base) == [i \in 1..n |-> (base + 17 * (i - 1)) % 256]

RleRecords ==
    [kind : {"copy"}, n : {1, 3, 128}, b : {170, 127}]
      \cup [kind : {"repeat"}, n : {2, 3, 129}, b : {127, 0}]

\* Bound: the number of records of a stream.
MaxRleRecords == 2

RleStreams == UNION {[1..n -> RleRecords] : n \in 0..MaxRleRecords}

\* The bytes a record is stored as, and the bytes it stands for.
EncodeRecord(rec) ==
    IF rec.kind = "copy" THEN <<rec.n - 1>> \o LiteralBytes(rec.n, rec.b)
                         ELSE <<257 - rec.n, rec.b>>

ExpandRecord(rec) ==
    IF rec.kind = "copy" THEN LiteralBytes(rec.n, rec.b) ELSE [i \in 1..rec.n |-> rec.b]

RECURSIVE EncodeStream(_)
EncodeStream(recs) ==
    IF recs = <<>> THEN <<>> ELSE EncodeRecord(Head(recs)) \o EncodeStream(Tail(recs))

RECURSIVE ExpandStream(_)
ExpandStream(recs) ==
    IF recs = <<>> THEN <<>> ELSE ExpandRecord(Head(recs)) \o ExpandStream(Tail(recs))

(***************************************************************************)
(* PmvPlayer::decompressPalette (pmvplayer.cpp 282-292)                    *)
(***************************************************************************)

\* byte _paletteRGB[768]: 256 entries of three bytes.
PaletteBytes == 768

\* memcpy(&dst[dofs], &src[sofs], n) with 0-based offsets into the 1-based
\* sequences: the bytes of dst after the copy.  Bytes that would land behind
\* dst are not part of dst; memcpyOverflows tells that there are some.
memcpy(dst, dofs, src, sofs, n) ==
    [i \in 1..Len(dst) |->
        IF i - 1 >= dofs /\ i - 1 < dofs + n THEN At(src, sofs + (i - 1 - dofs) + 1)
                                             ELSE dst[i]]

memcpyOverflows(dst, dofs, n) == n > 0 /\ dofs + n > Len(dst)

\* A plausible slip in the sentinel test: only the count is looked at.
isSentinelCountOnly(count, entry) == count = 255

\* "count == 255 && entry == 255" (pmvplayer.cpp 287)
isSentinel(count, entry) == count = 255 /\ entry = 255

\* The loop of decompressPalette().  mem is the memory the patch lies in, pos
\* the cursor palData (1-based), end the position palDataEnd points at.  The
\* result carries the palette, the (count, entry) pairs that were applied,
\* the final cursor, the last position read, and whether a memcpy wrote
\* behind the palette.
RECURSIVE palLoop(_, _, _, _, _, _, _)
palLoop(mem, pos, end, outPal, applied, lastRead, overflow) ==
    IF ~(pos < end)
    THEN [outPal |-> outPal, applied |-> applied, palData |-> pos,
          lastRead |-> lastRead, overflow |-> overflow, sentinel |-> FALSE]
    ELSE LET count == At(mem, pos)
             entry == At(mem, pos + 1)
             n == (count + 1) * 3
         IN IF isSentinel(count, entry)
            THEN [outPal |-> outPal, applied |-> applied, palData |-> pos + 2,
                  lastRead |-> pos + 1, overflow |-> overflow, sentinel |-> TRUE]
            ELSE palLoop(mem, pos + 2 + n, end,
                         memcpy(outPal, entry * 3, mem, pos + 1, n),
                         Append(applied, <<count, entry>>),
                         pos + 1 + n,
                         overflow \/ memcpyOverflows(outPal, entry * 3, n))

\* void PmvPlayer::decompressPalette(palData, outPal, palDataSize)
decompressPalette(mem, palData, outPal, palDataSize) ==
    palLoop(mem, palData, palData + palDataSize, outPal, <<>>, 0, FALSE)

\* The patches handed to decompressPalette() are built from records
\* (count, entry, seed): count + 1 triples whose bytes are seed, seed + 1, ...
\* The pair (255, 255) is the sentinel and no record.
PalRecords ==
    {r \in [count : {0, 2, 255}, entry : {0, 5, 254}, seed : {10, 200}] :
        <<r.count, r.entry>> \in {<<0, 5>>, <<2, 5>>, <<0, 254>>, <<2, 254>>, <<255, 0>>, <<255, 5>>}}

PalRecordByte(rec, j) == (rec.seed + j - 1) % 256
PalRecordBytes(rec) == [j \in 1..(rec.count + 1) * 3 |-> PalRecordByte(rec, j)]

EncodePalRecord(rec) == <<rec.count, rec.entry>> \o PalRecordBytes(rec)

\* Bound: the number of records of a patch.
MaxPalRecords == 2

PalPatches == UNION {[1..n -> PalRecords] : n \in 0..MaxPalRecords}

RECURSIVE EncodePalRecords(_)
EncodePalRecords(recs) ==
    IF recs = <<>> THEN <<>> ELSE EncodePalRecord(Head(recs)) \o EncodePalRecords(Tail(recs))

\* The patch with the sentinel pair put in front of record number at
\* (at = 0: no sentinel; at = Len(recs) + 1: behind the last record).
EncodePatch(recs, at) ==
    IF at = 0 THEN EncodePalRecords(recs)
    ELSE EncodePalRecords(SubSeq(recs, 1, at - 1)) \o <<255, 255>>
         \o EncodePalRecords(SubSeq(recs, at, Len(recs)))

\* The palette before a patch: entry e holds (e, e + 1, e + 2) mod 251.
InitialPalette == [i \in 1..PaletteBytes |-> (((i - 1) \div 3) + ((i - 1) % 3)) % 251]

(***************************************************************************)
(* decompressMovieImage (graphics.cpp 243-378)                             *)
(***************************************************************************)

\* Helpers for C integers.
Min(a, b) == IF a < b THEN a ELSE b
ToUint16(x) == x % 65536
\* (x >> k) & m for m = 2^j - 1
Bits(x, k, m) == (x \div (2 ^ k)) % (m + 1)

\* A pointer is a 0-based offset p into a buffer; *p is buf[p + 1].
InBuf(buf, p, n) == p >= 0 /\ p + n <= Len(buf)
\* READ_LE_UINT16 / READ_LE_UINT32 at p, as the bytes read, lowest first.
ReadLEBytes(buf, p, n) == SubSeq(buf, p + 1, p + n)
LE16Bytes(x) == <<x % 256, (x \div 256) % 256>>
\* (mask >> k) & m of a mask kept as its bytes, for a field inside one byte.
MaskBits(mask, k, m) == Bits(mask[(k \div 8) + 1], k % 8, m)
\* The bytes from offset p on.
From(buf, p) == SubSeq(buf, p + 1, Len(buf))

\* A Graphics::Surface of 8-bit pixels: pixels[y * pitch + x + 1] is (x, y).
\* Surface::create() (graphics/surface.cpp, not among the sources at hand)
\* allocates a zeroed raster whose pitch is w bytes.
SurfaceCreate(w, h) == [w |-> w, h |-> h, pitch |-> w, pixels |-> [i \in 1..w * h |-> 0]]

\* "if (flags & 1) rleDecompress(source + offs, source + offs + size, maxSize)
\*  else source + offs" (graphics.cpp 253-269 and 111-128): the buffer the
\* decoder reads the stream from, and whether it was allocated.
StreamBuffer(source, offs, size, flags, maxSize) ==
    IF flags % 2 = 1
    THEN LET res == rleDecompress(source, offs + 1, offs + size + 1, maxSize)
         IN [buf |-> res.written, allocated |-> TRUE, overflow |-> res.overflow]
    ELSE [buf |-> From(source, offs), allocated |-> FALSE, overflow |-> FALSE]

\* "bitBufLastOfs" and "bitBufLastCount" (graphics.cpp 276-279, 137-140)
BitBufLastOfs(lineSize) == (((lineSize + 1) \div 2) * 2) - 2
BitBufLastCount(width) ==
    LET c == ((width + 3) \div 4) % 8 IN IF c = 0 THEN 8 ELSE c

\* The 16 cells of a block for opcode 0, 1, 2 (graphics.cpp 308-336): cell i
\* (0..15, row-major, 4 per row) of a block decoded from the pixel values px
\* and the mask.
BlockCell(cmd, px, mask, i) ==
    CASE cmd = 0 -> px[1]
      [] cmd = 1 -> px[MaskBits(mask, i, 1) + 1]
      [] cmd = 2 -> px[MaskBits(mask, 2 * i, 3) + 1]

\* Variant of the write loop that copies all 16 cells of every block.
movieWriteBlockUnclipped(dest, surf, width, bx, by, block) ==
    [p \in 1..Len(dest) |->
        LET hits == {wr \in (0..3) \X (0..3) : (bx + wr[1]) + (by + wr[2]) * width = p - 1}
        IN IF hits = {} THEN dest[p]
           ELSE LET last == CHOOSE wr \in hits :
                               \A o \in hits : 4 * o[2] + o[1] <= 4 * wr[2] + wr[1]
                IN block[last[1] + 4 * last[2] + 1]]

\* The write loop of one block (graphics.cpp 345-355): destPtr[(bx + xc) + yc]
\* = block[xc + blockPos] for yc = by * width, by * width + width, ... < maxH
\* and xc < maxW.  row counts the turns of the outer loop (blockPos = 4 * row).
movieWriteBlock(dest, surf, width, bx, by, block) ==
    LET maxW == Min(4, surf.w - bx)
        maxH == (Min(4, surf.h - by) + by) * width
        writes == {wr \in (0..3) \X (0..3) :
                      /\ wr[1] < maxW
                      /\ (by + wr[2]) * width < maxH}
    IN [p \in 1..Len(dest) |->
          LET hits == {wr \in writes : (bx + wr[1]) + (by + wr[2]) * width = p - 1}
          IN IF hits = {} THEN dest[p]
             ELSE LET last == CHOOSE wr \in hits :
                                 \A o \in hits : 4 * o[2] + o[1] <= 4 * wr[2] + wr[1]
                  IN block[last[1] + 4 * last[2] + 1]]

\* The block write stays inside the raster.
movieWriteInside(dest, surf, width, bx, by) ==
    \A xc \in 0..3, row \in 0..3 :
        (xc < Min(4, surf.w - bx) /\ (by + row) * width < (Min(4, surf.h - by) + by) * width)
            => (bx + xc) + (by + row) * width < Len(dest)

\* The number of pixel bytes and mask bytes an opcode consumes.
PixelBytes(cmd) == CASE cmd = 0 -> 1 [] cmd = 1 -> 2 [] cmd = 2 -> 4 [] cmd = 3 -> 0
MaskBytes(cmd) == CASE cmd = 0 -> 0 [] cmd = 1 -> 2 [] cmd = 2 -> 4 [] cmd = 3 -> 0

\* One opcode of the inner loop (graphics.cpp 299-363).  cx holds what the
\* call fixed before the loops, st what the loops change; st.status turns
\* "ub" when a read leaves its buffer.
movieCommand(cx, st, cmd) ==
    IF ~InBuf(cx.pixelBuffer, st.pPixelBuf, PixelBytes(cmd))
         \/ ~InBuf(cx.maskBuffer, st.pMaskBuf, MaskBytes(cmd))
    THEN [st EXCEPT !.status = "ub"]
    ELSE IF cmd # 3 /\ ~movieWriteInside(st.dest, cx.surface, cx.width, st.bx, st.by)
    THEN [st EXCEPT !.status = "ub", !.outside = TRUE]
    ELSE LET px == [k \in 1..4 |-> IF k <= PixelBytes(cmd)
                                   THEN cx.pixelBuffer[st.pPixelBuf + k] ELSE 0]
             mask == ReadLEBytes(cx.maskBuffer, st.pMaskBuf, MaskBytes(cmd))
             block == [i \in 1..16 |-> BlockCell(cmd, px, mask, i - 1)]
             bx2 == ToUint16(st.bx + 4)
         IN Only({[st EXCEPT
                     !.dest = written,
                     !.pPixelBuf = @ + PixelBytes(cmd),
                     !.pMaskBuf = @ + MaskBytes(cmd),
                     !.bx = IF bx2 >= cx.bw THEN 0 ELSE bx2,
                     !.by = IF bx2 >= cx.bw THEN ToUint16(@ + 4) ELSE @,
                     !.cmds = Append(@, [cmd |-> cmd, bx |-> st.bx, by |-> st.by,
                                         cells |-> IF cmd # 3 THEN block ELSE <<>>,
                                         dest |-> written,
                                         pPixelBuf |-> st.pPixelBuf + PixelBytes(cmd),
                                         pMaskBuf |-> st.pMaskBuf + MaskBytes(cmd)])] :
                  written \in {IF cmd # 3
                               THEN movieWriteBlock(st.dest, cx.surface, cx.width,
                                                    st.bx, st.by, block)
                               ELSE st.dest}})

\* "for (curCmd = 0; curCmd < bitCount; curCmd++)": the opcodes of one 16-bit
\* group of the line record.  valid is the number of opcodes the bytes copied
\* into bitBuf define (4 when only the low byte of the group was copied).
RECURSIVE movieGroup(_, _, _, _, _, _)
movieGroup(cx, st, bits, curCmd, bitCount, valid) ==
    IF ~(curCmd < bitCount) \/ st.status # "ok" THEN st
    ELSE IF curCmd >= valid THEN [st EXCEPT !.status = "ub"]
    ELSE movieGroup(cx, movieCommand(cx, st, bits % 4), bits \div 4,
                    curCmd + 1, bitCount, valid)

\* "for (bitBufOfs = 0; bitBufOfs < lineSize; bitBufOfs += 2)": the groups of
\* one line record bitBuf.
RECURSIVE movieLine(_, _, _, _)
movieLine(cx, st, bitBuf, bitBufOfs) ==
    IF ~(bitBufOfs < cx.lineSize) \/ st.status # "ok" THEN st
    ELSE LET whole == bitBufOfs + 2 <= cx.lineSize
             bits == bitBuf[bitBufOfs + 1] + (IF whole THEN 256 * bitBuf[bitBufOfs + 2] ELSE 0)
             bitCount == IF bitBufOfs = BitBufLastOfs(cx.lineSize)
                         THEN BitBufLastCount(cx.width) ELSE 8
         IN movieLine(cx, movieGroup(cx, st, bits, 0, bitCount, IF whole THEN 8 ELSE 4),
                      bitBuf, bitBufOfs + 2)

\* "height -= 4" on the uint16 height (graphics.cpp 367)
movieNextHeight(height) == ToUint16(height - 4)

\* "while (height > 0)": one band per turn (graphics.cpp 284-369).  A line
\* record that does not lie inside the command buffer, or a line longer than
\* the 40 bytes of bitBuf, is a read or write outside an object.
RECURSIVE movieBands(_, _)
movieBands(cx, st) ==
    IF ~(st.height > 0) \/ st.status # "ok" THEN st
    ELSE IF ~InBuf(cx.cmdBuffer, st.pCmdBuf, cx.lineSize) \/ cx.lineSize > 40
         THEN [st EXCEPT !.status = "ub"]
         ELSE LET bitBuf == SubSeq(cx.cmdBuffer, st.pCmdBuf + 1, st.pCmdBuf + cx.lineSize)
                  st1 == movieLine(cx, [st EXCEPT !.pCmdBuf = @ + cx.lineSize,
                                                  !.bands = @ + 1],
                                   bitBuf, 0)
              IN movieBands(cx, IF st1.status = "ok"
                                THEN [st1 EXCEPT !.height = movieNextHeight(@)]
                                ELSE st1)

\* void decompressMovieImage(source, surface, cmdOffs, pixelOffs, maskOffs,
\*     cmdSize, pixelSize, maskSize, lineSize, cmdFlags, pixelFlags, maskFlags)
\* The flags arrive in byte parameters.  The result: the pixels of the
\* surface, how the call ended ("ok", or "ub" when it left a buffer, which is
\* where a band loop that never meets height = 0 ends), whether an error was
\* reported, and what the loops did.
decompressMovieImage(source, surface, cmdOffs, pixelOffs, maskOffs, cmdSize, pixelSize, maskSize, lineSize, cmdFlags, pixelFlags, maskFlags) ==
    LET width == ToUint16(surface.w)
        height == ToUint16(surface.h)
        alignW == (width + 3) \div 4
        alignH == (height + 3) \div 4
        cmd == StreamBuffer(source, cmdOffs, cmdSize, ToByte(cmdFlags), lineSize * height)
        pix == StreamBuffer(source, pixelOffs, pixelSize, ToByte(pixelFlags), alignW * alignH * 4)
        msk == StreamBuffer(source, maskOffs, maskSize, ToByte(maskFlags), alignW * alignH * 4)
        cx == [surface |-> surface, width |-> width, bw |-> ToUint16(alignW * 4),
               lineSize |-> lineSize, cmdBuffer |-> cmd.buf,
               pixelBuffer |-> pix.buf, maskBuffer |-> msk.buf]
        st0 == [dest |-> surface.pixels, pCmdBuf |-> 0, pPixelBuf |-> 0, pMaskBuf |-> 0,
                bx |-> 0, by |-> 0, height |-> height, bands |-> 0, cmds |-> <<>>,
                outside |-> FALSE,
                status |-> IF cmd.overflow \/ pix.overflow \/ msk.overflow
                           THEN "ub" ELSE "ok"]
        st == movieBands(cx, st0)
    IN [pixels |-> st.dest, status |-> st.status, error |-> FALSE,
        bands |-> st.bands, cmds |-> st.cmds, cmdRead |-> st.pCmdBuf,
        outside |-> st.outside,
        pixelsRead |-> st.pPixelBuf, masksRead |-> st.pMaskBuf]

(***************************************************************************)
(* decompressImage (graphics.cpp 91-241)                                   *)
(***************************************************************************)

\* A plausible slip in the flag test: the mask flags are not looked at.
unsupportedFlagsNoMask(cmdFlags, pixelFlags, maskFlags) ==
    pixelFlags % 256 >= 4 \/ cmdFlags % 256 >= 2

\* "(maskFlags & 0b11111100) || (pixelFlags & 0b11111100) ||
\*  (cmdFlags & 0b11111110)" on the byte parameters (graphics.cpp 95)
unsupportedFlags(cmdFlags, pixelFlags, maskFlags) ==
    maskFlags % 256 >= 4 \/ pixelFlags % 256 >= 4 \/ cmdFlags % 256 >= 2

\* byte lineBuf[640 * 4]
LineBufBytes == 2560

\* "offsets[i]" (graphics.cpp 103-108)
imageOffset(width, i) == (i % 4) + (i \div 4) * width

\* lineBuf after "lineBuf[drawDestOfs + offsets[i]] = cells[i]" for i = 0..15
\* in this order (lineBuf is kept as far as a band of this width reaches).
imageStoreBlock(lineBuf, width, drawDestOfs, cells) ==
    [k \in 1..Len(lineBuf) |->
        LET hits == {i \in 0..15 : drawDestOfs + imageOffset(width, i) = k - 1}
        IN IF hits = {} THEN lineBuf[k]
           ELSE cells[(CHOOSE i \in hits : \A o \in hits : o <= i) + 1]]

\* n calls of readPixel(): the reader after them and the values, in order.
RECURSIVE readPixels(_, _, _)
readPixels(r, n, got) ==
    IF n = 0 THEN [r |-> r, values |-> got]
    ELSE LET res == readPixel(r)
         IN readPixels(res.r, n - 1, Append(got, res.value))

\* One opcode of the inner loop (graphics.cpp 162-214).
imageCommand(cx, st, cmd) ==
    LET nPix == PixelBytes(cmd)
        px == readPixels(st.pixelReader, nPix, <<>>)
        pxv == [k \in 1..4 |-> IF k <= nPix THEN px.values[k] ELSE 0]
        maskOk == InBuf(st.maskReader.buffer, st.maskReader.pos - 1, MaskBytes(cmd))
        m == CASE cmd = 1 -> readUint16(st.maskReader)
               [] cmd = 2 -> readUint32(st.maskReader)
               [] OTHER -> [r |-> st.maskReader, value |-> 0]
        lit == readPixels(resetNibbleSwitch(st.maskReader), 16, <<>>)
        literal == cmd = 3 /\ ~cx.deltaFrame
        cells == IF literal THEN lit.values
                 ELSE IF cmd = 3 THEN <<>>
                 ELSE [i \in 1..16 |->
                         BlockCell(cmd, pxv, IF cmd = 1 THEN LE16Bytes(m.value) ELSE m.value,
                                   i - 1)]
        bad == \/ \E k \in 1..nPix : px.values[k] = -1
               \/ (cmd \in {1, 2} /\ ~maskOk)
               \/ (literal /\ \E k \in 1..16 : lit.values[k] = -1)
               \/ (cells # <<>> /\ st.drawDestOfs + imageOffset(cx.width, 15) >= LineBufBytes)
    IN IF bad THEN [st EXCEPT !.status = "ub"]
       ELSE [st EXCEPT
               !.lineBuf = IF cells = <<>> THEN @
                           ELSE imageStoreBlock(@, cx.width, st.drawDestOfs, cells),
               !.pixelReader = px.r,
               !.maskReader = IF literal THEN lit.r ELSE m.r,
               !.drawDestOfs = @ + 4,
               !.blocks = Append(@, [band |-> st.bands, col |-> st.drawDestOfs \div 4,
                                     cmd |-> cmd, cells |-> cells,
                                     pixelsRead |-> px.r # st.pixelReader,
                                     maskRead |-> (IF literal THEN lit.r ELSE m.r)
                                                  # st.maskReader])]

\* "for (curCmd = 0; curCmd < bitCount; curCmd++)" (graphics.cpp 162)
RECURSIVE imageGroup(_, _, _, _, _, _)
imageGroup(cx, st, bits, curCmd, bitCount, valid) ==
    IF ~(curCmd < bitCount) \/ st.status # "ok" THEN st
    ELSE IF curCmd >= valid THEN [st EXCEPT !.status = "ub"]
    ELSE imageGroup(cx, imageCommand(cx, st, bits % 4), bits \div 4,
                    curCmd + 1, bitCount, valid)

\* "for (bitBufOfs = 0; bitBufOfs < lineSize; bitBufOfs += 2)" (graphics.cpp 152)
RECURSIVE imageLine(_, _, _, _)
imageLine(cx, st, bitBuf, bitBufOfs) ==
    IF ~(bitBufOfs < cx.lineSize) \/ st.status # "ok" THEN st
    ELSE LET whole == bitBufOfs + 2 <= cx.lineSize
             bits == bitBuf[bitBufOfs + 1] + (IF whole THEN 256 * bitBuf[bitBufOfs + 2] ELSE 0)
             bitCount == IF bitBufOfs = BitBufLastOfs(cx.lineSize)
                         THEN BitBufLastCount(cx.width) ELSE 8
         IN imageLine(cx, imageGroup(cx, st, bits, 0, bitCount, IF whole THEN 8 ELSE 4),
                      bitBuf, bitBufOfs + 2)

\* The commit of a band (graphics.cpp 217-231): rows y = 0.. while y < 4 and
\* height > 0.  destRow is the row destPtr stands on.  A delta frame writes
\* the non-zero bytes of lineBuf only, a full frame copies width bytes a row.
imageCommit(cx, dest, lineBuf, destRow, rows) ==
    [p \in 1..Len(dest) |->
        LET y == ((p - 1) \div cx.pitch) - destRow
            x == (p - 1) % cx.pitch
        IN IF y >= 0 /\ y < rows /\ x < cx.width
              /\ (~cx.deltaFrame \/ lineBuf[x + y * cx.width + 1] # 0)
           THEN lineBuf[x + y * cx.width + 1]
           ELSE dest[p]]

\* "while (height > 0)" (graphics.cpp 143-232): one band per turn.
RECURSIVE imageBands(_, _)
imageBands(cx, st) ==
    IF ~(st.height > 0) \/ st.status # "ok" THEN st
    ELSE IF ~InBuf(cx.cmdBuffer, st.pCmdBuf, cx.lineSize) \/ cx.lineSize > 40
         THEN [st EXCEPT !.status = "ub"]
         ELSE LET bitBuf == SubSeq(cx.cmdBuffer, st.pCmdBuf + 1, st.pCmdBuf + cx.lineSize)
                  st1 == imageLine(cx, [st EXCEPT !.pCmdBuf = @ + cx.lineSize,
                                                  !.drawDestOfs = 0,
                                                  !.lineBuf = [k \in 1..Len(@) |-> 0]],
                                   bitBuf, 0)
                  rows == Min(4, st.height)
              IN IF st1.status # "ok" THEN st1
                 ELSE IF (st.destRow + rows) * cx.pitch > Len(st.dest) + (cx.pitch - cx.width)
                 THEN [st1 EXCEPT !.status = "ub"]
                 ELSE imageBands(cx, [st1 EXCEPT
                         !.dest = imageCommit(cx, @, st1.lineBuf, st.destRow, rows),
                         !.destRow = @ + rows,
                         !.height = @ - rows,
                         !.bands = @ + 1])

\* void decompressImage(source, surface, cmdOffs, pixelOffs, maskOffs, cmdSize,
\*     pixelSize, maskSize, lineSize, cmdFlags, pixelFlags, maskFlags, deltaFrame)
\* error() does not return: the call then ends with status "error", before
\* anything else was done.  allocated counts the buffers rleDecompress() made.
decompressImage(source, surface, cmdOffs, pixelOffs, maskOffs, cmdSize, pixelSize, maskSize, lineSize, cmdFlags, pixelFlags, maskFlags, deltaFrame) ==
    IF unsupportedFlags(cmdFlags, pixelFlags, maskFlags)
    THEN [pixels |-> surface.pixels, status |-> "error", allocated |-> 0,
          bands |-> 0, blocks |-> <<>>]
    ELSE
    LET width == ToUint16(surface.w)
        height == ToUint16(surface.h)
        alignW == (width + 3) \div 4
        alignH == (height + 3) \div 4
        cmd == StreamBuffer(source, cmdOffs, cmdSize, cmdFlags, lineSize * height)
        msk == StreamBuffer(source, maskOffs, maskSize, maskFlags, alignW * alignH * 4)
        pix == StreamBuffer(source, pixelOffs, pixelSize, pixelFlags, alignW * alignH * 4)
        cx == [width |-> width, pitch |-> ToUint16(surface.pitch), lineSize |-> lineSize,
               cmdBuffer |-> cmd.buf, deltaFrame |-> deltaFrame]
        st0 == [dest |-> surface.pixels, destRow |-> 0, pCmdBuf |-> 0,
                maskReader |-> ValueReader(msk.buf, (maskFlags \div 2) % 2 = 1),
                pixelReader |-> ValueReader(pix.buf, (pixelFlags \div 2) % 2 = 1),
                lineBuf |-> [k \in 1..Min(LineBufBytes, 4 * width + 8) |-> 0],
                drawDestOfs |-> 0, height |-> height, bands |-> 0, blocks |-> <<>>,
                status |-> IF cmd.overflow \/ pix.overflow \/ msk.overflow
                           THEN "ub" ELSE "ok"]
        st == imageBands(cx, st0)
        n(b) == IF b.allocated THEN 1 ELSE 0
    IN [pixels |-> st.dest, status |-> st.status,
        allocated |-> n(cmd) + n(msk) + n(pix),
        bands |-> st.bands, blocks |-> st.blocks]

(***************************************************************************)
(* Images handed to the decoders                                           *)
(***************************************************************************)

\* The kinds of blocks the test images are built from: an opcode, the pixel
\* values it carries and its selection mask.  The literal bytes of an opcode
\* 3 block are literal[1..16].
BlockKinds ==
    << [cmd |-> 0, px |-> <<7>>, mask |-> <<>>],
       [cmd |-> 1, px |-> <<1, 2>>, mask |-> <<60, 90>>],
       [cmd |-> 2, px |-> <<3, 0, 5, 6>>, mask |-> <<228, 27, 147, 198>>],
       [cmd |-> 3, px |-> <<>>, mask |-> <<>>],
       [cmd |-> 0, px |-> <<0>>, mask |-> <<>>] >>

LiteralCells == <<8, 0, 10, 11, 12, 13, 0, 15, 16, 17, 18, 19, 20, 21, 22, 0>>

\* The block of band b (0-based) and column c (0-based) of image number seed.
BlockAt(seed, b, c) == BlockKinds[((seed + 2 * b + c) % Len(BlockKinds)) + 1]


\* The bytes a block adds to the mask stream; literal tells whether opcode 3
\* carries 16 literal bytes there (the keyframe decoder on a full frame).
BlockMaskBytes(blk, literal) ==
    CASE blk.cmd \in {1, 2} -> blk.mask
      [] blk.cmd = 3 /\ literal -> LiteralCells
      [] OTHER -> <<>>

\* The streams of image number seed with alignW x alignH blocks, block after
\* block in raster order.
RECURSIVE ImagePixelStream(_, _, _, _)
ImagePixelStream(seed, alignW, alignH, k) ==
    IF k >= alignW * alignH THEN <<>>
    ELSE BlockAt(seed, k \div alignW, k % alignW).px
           \o ImagePixelStream(seed, alignW, alignH, k + 1)

RECURSIVE ImageMaskStream(_, _, _, _, _)
ImageMaskStream(seed, alignW, alignH, literal, k) ==
    IF k >= alignW * alignH THEN <<>>
    ELSE BlockMaskBytes(BlockAt(seed, k \div alignW, k % alignW), literal)
           \o ImageMaskStream(seed, alignW, alignH, literal, k + 1)

\* The line record of band b: four 2-bit opcodes a byte, lowest bits first.
ImageLineSize(alignW) == (alignW + 3) \div 4

ImageLineRecord(seed, alignW, b) ==
    [k \in 1..ImageLineSize(alignW) |->
        LET op(t) == IF 4 * (k - 1) + t < alignW
                     THEN BlockAt(seed, b, 4 * (k - 1) + t).cmd ELSE 0
        IN op(0) + 4 * op(1) + 16 * op(2) + 64 * op(3)]

RECURSIVE ImageCmdStream(_, _, _, _)
ImageCmdStream(seed, alignW, alignH, b) ==
    IF b >= alignH THEN <<>>
    ELSE ImageLineRecord(seed, alignW, b) \o ImageCmdStream(seed, alignW, alignH, b + 1)

\* A stream as it is stored: as it is, or (flag bit 0) as one copy record.
StoredStream(raw, flags) ==
    IF flags % 2 = 1 /\ raw # <<>> THEN <<Len(raw) - 1>> \o raw ELSE raw

\* The image sub-chunk body of image number seed for a w x h surface, and the
\* arguments the decoders take for it.  The streams follow each other: the
\* command stream, the pixel stream, the mask stream.
ImageArgs(seed, w, h, literal, cmdFlags, pixelFlags, maskFlags) ==
    LET alignW == (w + 3) \div 4
        alignH == (h + 3) \div 4
        cmd == StoredStream(ImageCmdStream(seed, alignW, alignH, 0), cmdFlags)
        pix == StoredStream(ImagePixelStream(seed, alignW, alignH, 0), pixelFlags)
        msk == StoredStream(ImageMaskStream(seed, alignW, alignH, literal, 0), maskFlags)
    IN [source |-> cmd \o pix \o msk,
        cmdOffs |-> 0, pixelOffs |-> Len(cmd), maskOffs |-> Len(cmd) + Len(pix),
        cmdSize |-> Len(cmd), pixelSize |-> Len(pix), maskSize |-> Len(msk),
        lineSize |-> ImageLineSize(alignW),
        cmdFlags |-> cmdFlags, pixelFlags |-> pixelFlags, maskFlags |-> maskFlags,
        seed |-> seed, w |-> w, h |-> h]

(***************************************************************************)
(* PmvPlayer (pmvplayer.cpp 39-280)                                        *)
(***************************************************************************)

\* A pointer member is "null", points at a live object ("live") or still
\* holds the address of an object that was deleted ("freed").
\* "delete ptr": deleting a null pointer does nothing; deleting what was
\* deleted before is a double free, which the sinks record.
DeleteIsDoubleFree(ptr) == ptr = "freed"

\* The movie file behind Common::File, which is not among the sources at
\* hand: the stream hands out the chunks one after the other; eos() turns
\* true once a read asked for more bytes than the file still holds, and a
\* read of the last bytes of the file leaves it false.
StreamAtEnd(movie, fdPos) == fdPos >= Len(movie.chunks)

\* PmvPlayer::PmvPlayer(): the pointer members are null; frameDataSize (like
\* frameNumber, frameCount, frameDelay and the palette) is not initialised,
\* so it starts with whatever value "garbage" stands for.
PmvPlayer(garbage) ==
    [fd |-> "null", fdPos |-> 0, eos |-> FALSE,
     surface |-> "null", frameData |-> "null", frameDataSize |-> garbage,
     audioStream |-> "null", soundDecoderData |-> "null",
     paletteRGB |-> <<>>, image |-> <<>>, frameNumber |-> 0, frameCount |-> 0, frameDelay |-> 0,
     soundFreq |-> 0]

\* What the player has done to the systems around it.
NoSinks ==
    [copyRect |-> 0, queueBuffer |-> <<>>, updateScreen |-> 0, setPalette |-> 0,
     stopAll |-> 0, finish |-> 0, stopHandle |-> 0, releases |-> <<>>,
     doubleFree |-> FALSE, errors |-> 0, waited |-> -1, frameLog |-> <<>>,
     newFrameData |-> 0]

\* "if (soundFreq == 11127) soundFreq = 11025; if (soundFreq == 22254)
\*  soundFreq = 22050;" (pmvplayer.cpp 85-89)
correctedFreq(soundFreq) ==
    IF soundFreq = 11127 THEN 11025 ELSE IF soundFreq = 22254 THEN 22050 ELSE soundFreq

\* "delete _fd; return false;" (pmvplayer.cpp 53-54, 63-64, 70-71): the
\* File is deleted and _fd keeps its address.
loadFailed(p) == [p EXCEPT !.fd = "freed"]

\* bool PmvPlayer::load(filename): the player and the sinks after the call,
\* and the value returned.
load(p, sk, movie) ==
    LET p1 == [p EXCEPT !.fd = "live", !.fdPos = 0, !.eos = FALSE]
    IN IF ~movie.opens \/ movie.tag1 # "MOVE" \/ movie.tag2 # "MHED"
       THEN [p |-> loadFailed(p1), sk |-> sk, ok |-> FALSE]
       ELSE [p |-> [p1 EXCEPT !.frameDelay = movie.frameDelay,
                              !.frameCount = movie.frameCount,
                              !.soundFreq = correctedFreq(movie.soundFreq),
                              !.paletteRGB = movie.palette,
                              !.audioStream = "live",
                              !.soundDecoderData = "live",
                              !.frameNumber = 0],
             sk |-> [sk EXCEPT !.setPalette = @ + 1, !.stopAll = @ + 1],
             ok |-> TRUE]

\* The order in which close() releases (pmvplayer.cpp 207-227).
closeOrder == <<"surface", "frameData", "soundDecoderData", "audioStream", "fd">>

\* A plausible slip in close(): the surface is freed but the member is not
\* cleared.
closedSurfaceKept(surface) == IF surface = "null" THEN "null" ELSE "freed"

\* "if (_surface) _surface->free(); delete _surface; _surface = nullptr;"
closedSurface(surface) == "null"

\* void PmvPlayer::close()
close(p, sk) ==
    [p |-> [p EXCEPT !.surface = closedSurface(@),
                     !.image = <<>>,
                     !.frameData = "null",
                     !.frameDataSize = 0,
                     !.soundDecoderData = "null",
                     !.audioStream = "null",
                     !.fd = "null"],
     sk |-> [sk EXCEPT !.releases = @ \o closeOrder,
                       !.finish = IF p.audioStream # "null" THEN @ + 1 ELSE @,
                       !.stopHandle = @ + 1,
                       !.doubleFree = @ \/ DeleteIsDoubleFree(p.surface)
                                        \/ DeleteIsDoubleFree(p.frameData)
                                        \/ DeleteIsDoubleFree(p.soundDecoderData)
                                        \/ DeleteIsDoubleFree(p.fd)]]

\* A plausible slip: the outcome of the read is not looked at.
shortReadIgnored(c) == FALSE

\* "if (bytesRead < chunkSize || _fd->eos())" (pmvplayer.cpp 134-136): the
\* file ends before the chunkSize bytes of the chunk.
shortRead(c) == c.truncated

\* Variant of the test that allocates only when there is no buffer.
frameDataGrowsOnlyNull(p, chunkSize) == p.frameData = "null"

\* "if (frameDataSize < chunkSize || !frameData)" (pmvplayer.cpp 127)
frameDataGrows(p, chunkSize) == p.frameDataSize < chunkSize \/ p.frameData = "null"

\* A plausible slip in the audio part: a buffer is queued for every frame.
frameAudioAlways(sk, c) ==
    [sk EXCEPT !.queueBuffer = Append(@, 0),
               !.frameLog = @ \o <<"decompressSound", "queueBuffer">>]

\* The audio part of decode_frame (pmvplayer.cpp 143-154): one buffer of
\* chunkCount * soundChunkSize bytes is queued.
frameAudio(sk, c) ==
    IF c.soundChunkOfs = 0 THEN sk
    ELSE [sk EXCEPT !.queueBuffer = Append(@, c.audio[2] * c.audio[1]),
                    !.frameLog = @ \o <<"decompressSound", "queueBuffer">>]

\* The palette part of decode_frame (pmvplayer.cpp 157-162).
framePalette(p, sk, c) ==
    IF c.palChunkOfs = 0 THEN [p |-> p, sk |-> sk, status |-> "ok"]
    ELSE Only({[p |-> [p EXCEPT !.paletteRGB = res.outPal],
                sk |-> [sk EXCEPT !.setPalette = @ + 1,
                                  !.frameLog = @ \o <<"decompressPalette",
                                                       "setRGBPalette">>],
                status |-> IF res.overflow THEN "ub" ELSE "ok"] :
               res \in {decompressPalette(c.pal, 1, p.paletteRGB, Len(c.pal))}})

\* The video part of decode_frame (pmvplayer.cpp 165-198): the surface is
\* created from the first image's dimensions, the image is decoded into it
\* and the surface is blitted.
frameVideo(p, sk, c) ==
    IF c.imageDataOfs = 0 THEN [p |-> p, sk |-> sk, status |-> "ok"]
    ELSE LET img == c.image
             surf == IF p.surface = "null" THEN SurfaceCreate(img.w, img.h) ELSE p.image
         IN Only({[p |-> [p EXCEPT !.surface = "live",
                                   !.image = [surf EXCEPT !.pixels = res.pixels]],
                   sk |-> IF res.status = "ok"
                          THEN [sk EXCEPT !.copyRect = @ + 1,
                                          !.errors = IF res.error THEN @ + 1 ELSE @,
                                          !.frameLog = @ \o <<"decompressMovieImage",
                                                               "copyRectToScreen">>]
                          ELSE sk,
                   status |-> res.status] :
                  res \in {decompressMovieImage(img.source, surf,
                              img.cmdOffs, img.pixelOffs, img.maskOffs,
                              ToUint16(img.pixelOffs - img.cmdOffs),
                              ToUint16(img.maskOffs - img.pixelOffs),
                              ToUint16(img.imageChunkSize - img.maskOffs),
                              img.lineSize, img.cmdFlags, img.pixelFlags,
                              img.maskFlags)}})

\* The end of decode_frame, given what the palette part left: the video
\* part, then "frameNumber++; return true;" (pmvplayer.cpp 165-202).
frameVideoThenCount(pal, c) ==
    IF pal.status # "ok"
    THEN [p |-> pal.p, sk |-> pal.sk, ok |-> FALSE, status |-> "ub"]
    ELSE Only({IF vid.status # "ok"
               THEN [p |-> vid.p, sk |-> vid.sk, ok |-> FALSE, status |-> "ub"]
               ELSE [p |-> [vid.p EXCEPT !.frameNumber = @ + 1],
                     sk |-> [vid.sk EXCEPT !.frameLog = Append(@, "frameNumber++")],
                     ok |-> TRUE, status |-> "ok"] :
               vid \in {frameVideo(pal.p, pal.sk, c)}})

\* bool PmvPlayer::decode_frame(): the player and the sinks after the call,
\* the value returned, and status "ub" when the call ran into undefined
\* behaviour instead of returning.
decode_frame(p, sk0, movie) ==
    LET sk == [sk0 EXCEPT !.frameLog = <<>>]
    IN IF StreamAtEnd(movie, p.fdPos)
       THEN [p |-> [p EXCEPT !.eos = TRUE], sk |-> sk, ok |-> FALSE, status |-> "ok"]
       ELSE
         LET c == movie.chunks[p.fdPos + 1]
             p1 == [p EXCEPT !.fdPos = @ + 1]
             p2 == IF frameDataGrows(p, c.chunkSize)
                   THEN [p1 EXCEPT !.frameData = "live", !.frameDataSize = c.chunkSize]
                   ELSE p1
             sk2 == IF frameDataGrows(p, c.chunkSize)
                    THEN [sk EXCEPT !.newFrameData = @ + 1]
                    ELSE sk
         IN IF c.chunkType # "MFRM"
            THEN [p |-> p1, sk |-> sk, ok |-> FALSE, status |-> "ok"]
            ELSE IF shortRead(c)
            THEN [p |-> [p2 EXCEPT !.eos = TRUE], sk |-> sk2, ok |-> FALSE, status |-> "ok"]
            ELSE
              Only({frameVideoThenCount(pal, c) :
                    pal \in {framePalette(p2, frameAudio(sk2, c), c)}})

\* "frameNumber < frameCount" (pmvplayer.cpp 236)
moreFrames(p) == p.frameNumber < p.frameCount

\* The condition of the playback loop (pmvplayer.cpp 236).
playLoopCondition(p, shouldQuit, aborted) ==
    ~shouldQuit /\ ~aborted /\ ~p.eos /\ moreFrames(p)

\* "(frameNumber - 1) * frameDelay - (getTotalPlayTime() - pmvStartTime)"
\* (pmvplayer.cpp 243)
delayTime(p, elapsed) == (p.frameNumber - 1) * p.frameDelay - elapsed

\* A plausible slip in the event loop: any key press cancels.
isCancelAnyKey(event) == event.type = "KEYDOWN"

\* "case EVENT_KEYDOWN: if (event.kbd.keycode == KEYCODE_ESCAPE)"
\* (pmvplayer.cpp 255-257)
isCancel(event) == event.type = "KEYDOWN" /\ event.keycode = "ESCAPE"

\* Variant of the event loop that examines only the first pending event.
pollEventsFirstOnly(queue, aborted) ==
    aborted \/ (queue # <<>> /\ isCancel(queue[1]))

\* The event loop of play() (pmvplayer.cpp 252-262): every pending event is
\* taken off the queue; aborted is set when one of them cancels.
pollEvents(queue, aborted) ==
    aborted \/ \E i \in 1..Len(queue) : isCancel(queue[i])

(***************************************************************************)
(* State                                                                   *)
(***************************************************************************)

VARIABLES
    reader,      \* the ValueReader under test
    rdOp,        \* the last operation applied to it ("new" after construction)
    rdPrevOp,    \* the operation before that one
    rdValue,     \* the value that operation returned (-1: none)
    rdBefore,    \* the reader as it was before that operation
    rdPixels,    \* the values readPixel() returned since construction
    rdPlain      \* TRUE while only readPixel() has been called since construction

readerVars == <<reader, rdOp, rdPrevOp, rdValue, rdBefore, rdPixels, rdPlain>>



VARIABLES
    rleRecs,     \* the records the stream was built from
    rleSource,   \* the memory holding the stream (one spare byte behind it)
    rleEnd,      \* the position "end" points at
    rleMaxSize,  \* the maxSize argument
    rleDone,     \* TRUE once rleDecompress() has been called
    rleResult    \* what it returned

rleVars == <<rleRecs, rleSource, rleEnd, rleMaxSize, rleDone, rleResult>>

VARIABLES
    palRecs,     \* the records the patch was built from
    palSentinel, \* where the sentinel pair stands in it (0: nowhere)
    palMem,      \* the memory holding the patch
    palSize,     \* the palDataSize argument
    palette,     \* the 768 bytes of outPal
    palDone,     \* TRUE once decompressPalette() has been called
    palResult    \* what the call did

palVars == <<palRecs, palSentinel, palMem, palSize, palette, palDone, palResult>>

VARIABLES
    imgArgs,     \* the arguments of the decompressImage() call
    imgDelta,    \* its deltaFrame argument
    imgSurface,  \* the surface it draws on
    imgBefore,   \* the pixels of the surface before the call
    imgDone,     \* TRUE once decompressImage() has been called
    imgResult    \* how the call ended

imgVars == <<imgArgs, imgDelta, imgSurface, imgBefore, imgDone, imgResult>>

VARIABLES
    movArgs,     \* the arguments of the decompressMovieImage() call
    movSurface,  \* the surface it draws on
    movBefore,   \* the pixels of the surface before the call
    movDone,     \* TRUE once decompressMovieImage() has been called
    movResult    \* how the call ended

movVars == <<movArgs, movSurface, movBefore, movDone, movResult>>

VARIABLES
    file,        \* the movie file play() is asked for
    player,      \* the members of the PmvPlayer object
    sinks,       \* what the player did to screen, mixer, clock and heap
    pc,          \* where the program stands in play()
    aborted,     \* the local variable of play()
    elapsed,     \* getTotalPlayTime() - pmvStartTime
    result,      \* what the last play() returned (TRUE while it runs)
    loaded,      \* TRUE when the load() of the last play() succeeded
    events,      \* the queue of the event manager
    shouldQuit,  \* what MadeEngine::shouldQuit() answers
    lastFrame,   \* the last decode_frame() call: surface before it, outcome
    escFrames    \* frames decoded while an Escape key-down waited in the queue

playerVars == <<file, player, sinks, pc, aborted, elapsed, result, loaded,
                events, shouldQuit, lastFrame, escFrames>>

vars == <<readerVars, rleVars, palVars, imgVars, movVars, playerVars>>

\* The components are checked one at a time: while one runs, the state of
\* the others rests at these values.
ReaderIdle ==
    /\ reader = ValueReader(<<>>, FALSE)
    /\ rdOp = "new" /\ rdPrevOp = "new" /\ rdValue = -1
    /\ rdBefore = reader /\ rdPixels = <<>> /\ rdPlain = TRUE

RleIdle ==
    /\ rleRecs = <<>> /\ rleSource = <<>> /\ rleEnd = 1
    /\ rleMaxSize = 0 /\ rleDone = FALSE /\ rleResult = <<>>

PalIdle ==
    /\ palRecs = <<>> /\ palSentinel = 0 /\ palMem = <<>> /\ palSize = 0
    /\ palette = <<>> /\ palDone = FALSE /\ palResult = <<>>

ImgIdle ==
    /\ imgArgs = <<>> /\ imgDelta = FALSE /\ imgSurface = SurfaceCreate(0, 0)
    /\ imgBefore = <<>> /\ imgDone = FALSE /\ imgResult = <<>>

MovieIdle ==
    /\ movArgs = <<>> /\ movSurface = SurfaceCreate(0, 0)
    /\ movBefore = <<>> /\ movDone = FALSE /\ movResult = <<>>

PlayerIdle ==
    /\ file = <<>> /\ player = PmvPlayer(0) /\ sinks = NoSinks /\ pc = "idle"
    /\ aborted = FALSE /\ elapsed = 0 /\ result = TRUE /\ loaded = FALSE
    /\ events = <<>> /\ shouldQuit = FALSE /\ lastFrame = <<>> /\ escFrames = 0

notReader == <<rleVars, palVars, imgVars, movVars, playerVars>>
notRle == <<readerVars, palVars, imgVars, movVars, playerVars>>
notPal == <<readerVars, rleVars, imgVars, movVars, playerVars>>
notImg == <<readerVars, rleVars, palVars, movVars, playerVars>>
notMovie == <<readerVars, rleVars, palVars, imgVars, playerVars>>
notPlayer == <<readerVars, rleVars, palVars, imgVars, movVars>>

(***************************************************************************)
(* The ValueReader driven by its callers                                   *)
(***************************************************************************)

\* Bound: the longest buffer handed to a reader.
MaxBufLen == 3
\* Bound: the number of readPixel() calls followed on one reader.
MaxReads == 4
\* The bytes the buffers are drawn from (0x3C is the byte of the spec's example).
ReaderBytes == {60, 165, 15}

ReaderBuffers == UNION {[1..n -> ReaderBytes] : n \in 1..MaxBufLen}

ReaderInit ==
    /\ \E b \in ReaderBuffers, m \in BOOLEAN : reader = ValueReader(b, m)
    /\ rdOp = "new"
    /\ rdPrevOp = "new"
    /\ rdValue = -1
    /\ rdBefore = reader
    /\ rdPixels = <<>>
    /\ rdPlain = TRUE

\* The reads stay inside the buffer: a caller that reads on is outside what
\* the code defines.
DoReadPixel ==
    /\ reader.pos <= Len(reader.buffer)
    /\ Len(rdPixels) < MaxReads
    /\ LET res == readPixel(reader)
       IN /\ reader' = res.r
          /\ rdValue' = res.value
          /\ rdPixels' = Append(rdPixels, res.value)
    /\ rdOp' = "readPixel"
    /\ rdPrevOp' = rdOp
    /\ rdBefore' = reader
    /\ UNCHANGED notReader
    /\ UNCHANGED notReader
    /\ UNCHANGED notReader
    /\ UNCHANGED rdPlain

DoReadUint16 ==
    /\ reader.pos + 1 <= Len(reader.buffer)
    /\ LET res == readUint16(reader)
       IN /\ reader' = res.r
          /\ rdValue' = res.value
    /\ rdOp' = "readUint16"
    /\ rdPrevOp' = rdOp
    /\ rdBefore' = reader
    /\ UNCHANGED notReader
    /\ UNCHANGED notReader
    /\ UNCHANGED notReader
    /\ rdPlain' = FALSE
    /\ UNCHANGED rdPixels

DoResetNibbleSwitch ==
    /\ rdOp # "resetNibbleSwitch"
    /\ reader.pos <= Len(reader.buffer)
    /\ reader' = resetNibbleSwitch(reader)
    /\ rdOp' = "resetNibbleSwitch"
    /\ rdPrevOp' = rdOp
    /\ rdValue' = -1
    /\ rdBefore' = reader
    /\ rdPlain' = FALSE
    /\ UNCHANGED notReader
    /\ UNCHANGED rdPixels

ReaderNext == DoReadPixel \/ DoReadUint16 \/ DoResetNibbleSwitch

InitReader == ReaderInit /\ RleIdle /\ PalIdle /\ ImgIdle /\ PlayerIdle /\ MovieIdle

SpecReader == InitReader /\ [][ReaderNext]_vars

\* The values a reader constructed on buf has returned after n readPixel()
\* calls and nothing else, when the nibble read FIRST at a byte position is
\* First(b) and the one read second is Second(b).
NibblePairs(buf, n, First(_), Second(_)) ==
    [k \in 1..n |-> IF k % 2 = 1 THEN First(buf[(k + 1) \div 2])
                                  ELSE Second(buf[k \div 2])]

\* C7 as stated: a fresh reader in nibble mode returns the high nibble at the
\* first readPixel() of a byte position and the low nibble at the second; the
\* pointer has moved once per pair of calls.  In byte mode every call returns
\* the byte and moves the pointer.
C7_HighNibbleFirst ==
    rdPlain =>
        IF reader.nibbleMode
        THEN /\ rdPixels = NibblePairs(reader.buffer, Len(rdPixels), HighNibble, LowNibble)
             /\ reader.pos = 1 + Len(rdPixels) \div 2
        ELSE /\ rdPixels = [k \in 1..Len(rdPixels) |-> reader.buffer[k]]
             /\ reader.pos = 1 + Len(rdPixels)

\* C7 amended: a fresh reader in nibble mode returns the LOW nibble (b & 0x0F)
\* at the first readPixel() of a byte position and the HIGH nibble (b >> 4) at
\* the second, and the pointer moves by one only after the high nibble has
\* been consumed (byte 0x3C yields 0xC then 0x3).  In byte mode every call
\* returns the whole byte and moves the pointer by one.
C7_LowNibbleFirst ==
    rdPlain =>
        IF reader.nibbleMode
        THEN /\ rdPixels = NibblePairs(reader.buffer, Len(rdPixels), LowNibble, HighNibble)
             /\ reader.pos = 1 + Len(rdPixels) \div 2
        ELSE /\ rdPixels = [k \in 1..Len(rdPixels) |-> reader.buffer[k]]
             /\ reader.pos = 1 + Len(rdPixels)

\* C7 witness: byte 0x3C read twice by a fresh nibble-mode reader.
C7_Witness ==
    /\ rdPlain /\ reader.nibbleMode
    /\ reader.buffer[1] = 60
    /\ rdPixels = <<12, 3>>
    /\ reader.pos = 2

\* The readPixel() that has just run directly after a resetNibbleSwitch(), on
\* a reader in nibble mode.
ReadAfterReset ==
    /\ rdOp = "readPixel"
    /\ rdPrevOp = "resetNibbleSwitch"
    /\ reader.nibbleMode

\* C8 as stated: whatever the parity before, the readPixel() that follows a
\* resetNibbleSwitch() returns the high nibble of the byte at the pointer.
C8_ResetThenHighNibble ==
    ReadAfterReset => rdValue = HighNibble(rdBefore.buffer[rdBefore.pos])

\* C8 amended: whatever the parity before, the readPixel() that follows a
\* resetNibbleSwitch() returns the LOW nibble of the byte at the pointer (0xC
\* for byte 0x3C) and leaves the pointer on that byte.
C8_ResetThenLowNibble ==
    ReadAfterReset =>
        /\ rdValue = LowNibble(rdBefore.buffer[rdBefore.pos])
        /\ reader.pos = rdBefore.pos

\* C8 witness: one readPixel() (odd parity), a reset, and a read of 0x3C.
C8_Witness ==
    /\ ReadAfterReset
    /\ rdPixels = <<12, 12>>
    /\ rdBefore.buffer[rdBefore.pos] = 60

(***************************************************************************)
(* rleDecompress() applied to a stream                                     *)
(***************************************************************************)

\* A stream is well formed when "end" lies right behind its last record; the
\* caller's contract is that maxSize holds the expanded stream.
RleInit ==
    /\ \E recs \in RleStreams, cut \in {0, 1}, tight \in {0, 1} :
         /\ cut = 1 => recs # <<>>
         /\ tight = 1 => recs # <<>>
         /\ rleRecs = recs
         /\ rleSource = EncodeStream(recs) \o <<0>>
         /\ rleEnd = Len(EncodeStream(recs)) + 1 - cut
         /\ rleMaxSize = Len(ExpandStream(recs)) - tight
    /\ rleDone = FALSE
    /\ rleResult = <<>>

DoRleDecompress ==
    /\ ~rleDone
    /\ rleDone' = TRUE
    /\ rleResult' = rleDecompress(rleSource, 1, rleEnd, rleMaxSize)
    /\ UNCHANGED <<rleRecs, rleSource, rleEnd, rleMaxSize>>
    /\ UNCHANGED notRle

RleNext == DoRleDecompress

InitRle == RleInit /\ ReaderIdle /\ PalIdle /\ ImgIdle /\ PlayerIdle /\ MovieIdle

SpecRle == InitRle /\ [][RleNext]_vars

RleWellFormed == rleEnd = Len(EncodeStream(rleRecs)) + 1
RleFits == Len(ExpandStream(rleRecs)) <= rleMaxSize

\* C9: for a well-formed stream and a maxSize that holds its expansion,
\* rleDecompress() writes exactly the concatenation of the records' runs
\* (n literal bytes, resp. n copies of the repeated byte), each run has the
\* declared length (1..128 for a copy, 2..129 for a repeat, no wrap of the
\* 8-bit val), nothing is written behind dest, and the loop ends with the
\* cursor exactly on "end".
C9_RleDecodes ==
    (rleDone /\ RleWellFormed /\ RleFits) =>
        /\ rleResult.written = ExpandStream(rleRecs)
        /\ rleResult.runs = [i \in 1..Len(rleRecs) |-> rleRecs[i].n]
        /\ \A i \in 1..Len(rleRecs) :
             IF rleRecs[i].kind = "copy" THEN rleResult.runs[i] \in 1..128
                                         ELSE rleResult.runs[i] \in 2..129
        /\ ~rleResult.overflow
        /\ rleResult.source = rleEnd

\* C9 witness: a copy record of the longest run followed by a repeat record
\* of the longest run, decoded.
C9_Witness ==
    /\ rleDone /\ RleWellFormed /\ RleFits
    /\ Len(rleRecs) = 2
    /\ rleRecs[1] = [kind |-> "copy", n |-> 128, b |-> 170]
    /\ rleRecs[2] = [kind |-> "repeat", n |-> 129, b |-> 127]
    /\ Len(rleResult.written) = 257

(***************************************************************************)
(* decompressPalette() applied to a patch                                  *)
(***************************************************************************)

PalInit ==
    /\ \E recs \in PalPatches, at \in 0..MaxPalRecords + 1 :
         /\ at <= Len(recs) + 1
         /\ palRecs = recs
         /\ palSentinel = at
         /\ palMem = EncodePatch(recs, at)
         /\ palSize = Len(EncodePatch(recs, at))
    /\ palette = InitialPalette
    /\ palDone = FALSE
    /\ palResult = <<>>

DoDecompressPalette ==
    /\ ~palDone
    /\ palDone' = TRUE
    /\ \E res \in {decompressPalette(palMem, 1, palette, palSize)} :
          /\ palette' = res.outPal
          /\ palResult' = [applied |-> res.applied, palData |-> res.palData,
                           lastRead |-> res.lastRead, overflow |-> res.overflow,
                           sentinel |-> res.sentinel]
    /\ UNCHANGED <<palRecs, palSentinel, palMem, palSize>>
    /\ UNCHANGED notPal

PalNext == DoDecompressPalette

InitPal == PalInit /\ ReaderIdle /\ RleIdle /\ ImgIdle /\ PlayerIdle /\ MovieIdle

SpecPal == InitPal /\ [][PalNext]_vars

\* The records in front of the sentinel (all of them without one): the ones
\* the patch asks to apply.
PalToApply ==
    IF palSentinel = 0 THEN palRecs ELSE SubSeq(palRecs, 1, palSentinel - 1)

\* Every record to apply names entries of the 256-entry palette only.
PalInRange == \A k \in 1..Len(PalToApply) : PalToApply[k].entry + PalToApply[k].count + 1 <= 256

\* Byte c (0..2) of palette entry e (0..255) after the records to apply, in
\* order: the triple of the last record that covers e, else the byte before.
PalExpected(e, c) ==
    LET covering == {k \in 1..Len(PalToApply) :
                        /\ PalToApply[k].entry <= e
                        /\ e <= PalToApply[k].entry + PalToApply[k].count}
    IN IF covering = {} THEN InitialPalette[3 * e + c + 1]
       ELSE LET k == CHOOSE x \in covering : \A y \in covering : y <= x
            IN PalRecordByte(PalToApply[k], 3 * (e - PalToApply[k].entry) + c + 1)

\* C10: a patch whose records stay inside the palette sets entries
\* entry .. entry + count of each record in front of the sentinel to the
\* record's triples, in order, and leaves every other entry as it was;
\* processing stops at the sentinel pair (255, 255) or at the end of the
\* buffer, whichever comes first, and nothing behind the sentinel is applied.
C10_PaletteExact ==
    (palDone /\ PalInRange) =>
        /\ \A e \in 0..255, c \in 0..2 : palette[3 * e + c + 1] = PalExpected(e, c)
        /\ Len(palette) = PaletteBytes
        /\ palResult.applied = [k \in 1..Len(PalToApply) |->
                                   <<PalToApply[k].count, PalToApply[k].entry>>]
        /\ palResult.sentinel = (palSentinel # 0)
        /\ ~palResult.overflow

\* C10 witness: the patch [0x00, 0x05, R, G, B] and then a sentinel in front of
\* a further record: entry 5 is set, the other 255 entries are as before.
C10_Witness ==
    /\ palDone
    /\ Len(palRecs) = 2 /\ palSentinel = 2
    /\ palRecs[1] = [count |-> 0, entry |-> 5, seed |-> 200]
    /\ palRecs[2].entry = 0
    /\ palette[16] = 200 /\ palette[17] = 201 /\ palette[18] = 202
    /\ \A i \in 1..PaletteBytes : i \notin 16..18 => palette[i] = InitialPalette[i]

\* Every byte decompressPalette() wrote lies inside the 768 bytes of the
\* palette, every applied pair has entry + count + 1 <= 256, and every byte
\* it read lies inside the palDataSize bytes of the patch.
PalInside ==
    /\ ~palResult.overflow
    /\ \A k \in 1..Len(palResult.applied) :
          palResult.applied[k][2] + palResult.applied[k][1] + 1 <= 256
    /\ palResult.lastRead <= palSize

\* C20: for every patch stream, every byte written by decompressPalette()
\* lies within the 256-entry palette (paletteIndex + count + 1 <= 256 for
\* every applied pair) and every byte read lies within the palDataSize bytes
\* of the patch.
C20_PaletteInside == palDone => PalInside

\* The same for the patches whose records in front of the sentinel name
\* entries of the palette only.
C20_PaletteInsideInRange == (palDone /\ PalInRange) => PalInside

(***************************************************************************)
(* decompressImage() applied to an image                                   *)
(***************************************************************************)

\* Bounds: the largest width and height of a surface, in pixels.
MaxImgW == 8
MaxImgH == 5

\* The flag bytes the calls are made with, <<cmdFlags, pixelFlags, maskFlags>>:
\* bit 0 is "RLE-compressed", bit 1 "nibble-packed", the others are reserved.
ImgFlags ==
    { <<0, 0, 0>>, <<1, 0, 0>>, <<1, 1, 0>>, <<1, 1, 1>>, <<0, 2, 0>>, <<0, 0, 2>>,
      <<2, 0, 0>>, <<3, 1, 1>>, <<128, 0, 0>>,
      <<0, 4, 0>>, <<1, 5, 1>>, <<0, 128, 0>>,
      <<0, 0, 4>>, <<1, 1, 5>>, <<0, 0, 64>> }

\* A surface of w x h pixels, each row followed by pad unused bytes, filled
\* with the value 9.
FilledSurface(w, h, pad) ==
    [w |-> w, h |-> h, pitch |-> w + pad, pixels |-> [i \in 1..(w + pad) * h |-> 9]]

ImgInit ==
    /\ \E seed \in 0..Len(BlockKinds) - 1, w \in 1..MaxImgW, h \in 1..MaxImgH,
          pad \in {0, 1}, delta \in BOOLEAN, f \in ImgFlags :
         /\ imgArgs = ImageArgs(seed, w, h, ~delta, f[1], f[2], f[3])
         /\ imgDelta = delta
         /\ imgSurface = FilledSurface(w, h, pad)
    /\ imgBefore = imgSurface.pixels
    /\ imgDone = FALSE
    /\ imgResult = <<>>

DoDecompressImage ==
    /\ ~imgDone
    /\ imgDone' = TRUE
    /\ \E res \in {decompressImage(imgArgs.source, imgSurface,
                                   imgArgs.cmdOffs, imgArgs.pixelOffs, imgArgs.maskOffs,
                                   imgArgs.cmdSize, imgArgs.pixelSize, imgArgs.maskSize,
                                   imgArgs.lineSize, imgArgs.cmdFlags, imgArgs.pixelFlags,
                                   imgArgs.maskFlags, imgDelta)} :
          /\ imgSurface' = [imgSurface EXCEPT !.pixels = res.pixels]
          /\ imgResult' = [status |-> res.status, allocated |-> res.allocated,
                           bands |-> res.bands, blocks |-> res.blocks]
    /\ UNCHANGED <<imgArgs, imgDelta, imgBefore>>
    /\ UNCHANGED notImg

ImgNext == DoDecompressImage

InitImg == ImgInit /\ ReaderIdle /\ RleIdle /\ PalIdle /\ PlayerIdle /\ MovieIdle

SpecImg == InitImg /\ [][ImgNext]_vars

\* Bit k of a flag byte is set.
BitSet(x, k) == (x \div (2 ^ k)) % 2 = 1

\* A reserved bit is set: one of bits 2-7 of the mask or pixel flags, or one
\* of bits 1-7 of the command flags.
ImgReservedBit ==
    \/ \E k \in 2..7 : BitSet(imgArgs.maskFlags, k) \/ BitSet(imgArgs.pixelFlags, k)
    \/ \E k \in 1..7 : BitSet(imgArgs.cmdFlags, k)

\* C6: decompressImage() called with a reserved flag bit set reports the
\* unsupported-flags error before it allocates an RLE buffer and before it
\* writes a pixel: the surface is as it was.
C6_FlagsRejected ==
    (imgDone /\ ImgReservedBit) =>
        /\ imgResult.status = "error"
        /\ imgResult.allocated = 0
        /\ imgSurface.pixels = imgBefore

\* C6 witness: a call whose streams are all flagged RLE-compressed and whose
\* mask flags carry reserved bit 2 has ended with the error.
C6_Witness ==
    /\ imgDone
    /\ <<imgArgs.cmdFlags, imgArgs.pixelFlags, imgArgs.maskFlags>> = <<1, 1, 5>>
    /\ imgResult.status = "error"
    /\ imgSurface.pixels = imgBefore

\* The surface in blocks of 4 x 4: the block that holds pixel (x, y), the
\* cell of it that the pixel shows, and the pixel itself.
ImgAlignW == (imgSurface.w + 3) \div 4
ImgBlock(x, y) == imgResult.blocks[(y \div 4) * ImgAlignW + (x \div 4) + 1]
ImgCell(x, y) == ImgBlock(x, y).cells[4 * (y % 4) + (x % 4) + 1]
ImgPixel(pixels, x, y) == pixels[y * imgSurface.pitch + x + 1]

\* A delta frame was decoded to its end.
DeltaDecoded == imgDone /\ imgDelta /\ imgResult.status = "ok"

\* What C11 says of a decoded delta frame: a pixel whose cell is 0 or whose
\* block has opcode 3 is as before, any other pixel holds its cell; a block
\* of opcode 3 has read nothing from the pixel stream or the mask stream.
DeltaTransparent ==
    /\ \A x \in 0..imgSurface.w - 1, y \in 0..imgSurface.h - 1 :
         IF ImgBlock(x, y).cmd = 3 THEN ImgPixel(imgSurface.pixels, x, y) = ImgPixel(imgBefore, x, y)
         ELSE IF ImgCell(x, y) = 0 THEN ImgPixel(imgSurface.pixels, x, y) = ImgPixel(imgBefore, x, y)
         ELSE ImgPixel(imgSurface.pixels, x, y) = ImgCell(x, y)
    /\ \A k \in 1..Len(imgResult.blocks) :
         imgResult.blocks[k].cmd = 3 =>
            ~imgResult.blocks[k].pixelsRead /\ ~imgResult.blocks[k].maskRead

\* C11 as the specification states it: on every delta frame, of any width,
\* decompressImage() leaves a pixel whose decoded cell is 0 as it was,
\* overwrites a pixel whose decoded cell is not 0 with the cell, and a block
\* of opcode 3 leaves its pixels as they were and consumes nothing from the
\* pixel and mask streams.
C11_DeltaTransparency == DeltaDecoded => DeltaTransparent

\* The same for the widths that are multiples of 4, where no block reaches
\* over the right edge of the image.
C11_DeltaTransparencyAligned ==
    (DeltaDecoded /\ imgSurface.w % 4 = 0) => DeltaTransparent

\* A full (non-delta) frame was decoded to its end.
KeyDecoded == imgDone /\ ~imgDelta /\ imgResult.status = "ok"

\* Every pixel (x, y) of the image holds the value decoded for its cell
\* (x % 4, y % 4) of block x \div 4 of band y \div 4.
BlocksPlaced ==
    \A x \in 0..imgSurface.w - 1, y \in 0..imgSurface.h - 1 :
        ImgPixel(imgSurface.pixels, x, y) = ImgCell(x, y)

\* C18: on a non-delta frame of any width, multiples of 4 or not, every
\* pixel (4c + i, 4 * band + j) inside the image ends up holding the value
\* decoded for cell (i, j) of block c of that band; the cells of the last,
\* partial block that lie right of the image edge overwrite no pixel of
\* another block or row.
C18_BlockPlacement == KeyDecoded => BlocksPlaced

\* The same for the widths that are multiples of 4.
C18_BlockPlacementAligned == (KeyDecoded /\ imgSurface.w % 4 = 0) => BlocksPlaced

(***************************************************************************)
(* decompressMovieImage() applied to an image                              *)
(***************************************************************************)

MaxMovW == 9
MaxMovH == 8

\* The flag bytes of the calls: every stream stored as it is, or some of
\* them RLE-compressed.
MovFlags == { <<0, 0, 0>>, <<1, 1, 1>>, <<1, 0, 0>>, <<0, 1, 1>> }

\* decode_frame() hands over the surface it created for the first image
\* (pmvplayer.cpp 188-195); it holds the previous frame, here the value 9
\* everywhere.
MovieInit ==
    /\ \E seed \in 0..Len(BlockKinds) - 1, w \in 1..MaxMovW, h \in 1..MaxMovH,
          f \in MovFlags :
         /\ movArgs = ImageArgs(seed, w, h, FALSE, f[1], f[2], f[3])
         /\ movSurface = FilledSurface(w, h, 0)
    /\ movBefore = movSurface.pixels
    /\ movDone = FALSE
    /\ movResult = <<>>

DoDecompressMovieImage ==
    /\ ~movDone
    /\ movDone' = TRUE
    /\ \E res \in {decompressMovieImage(movArgs.source, movSurface,
                                        movArgs.cmdOffs, movArgs.pixelOffs, movArgs.maskOffs,
                                        movArgs.cmdSize, movArgs.pixelSize, movArgs.maskSize,
                                        movArgs.lineSize, movArgs.cmdFlags,
                                        movArgs.pixelFlags, movArgs.maskFlags)} :
          /\ movSurface' = [movSurface EXCEPT !.pixels = res.pixels]
          /\ movResult' = [status |-> res.status, bands |-> res.bands,
                           cmds |-> res.cmds, cmdRead |-> res.cmdRead,
                           outside |-> res.outside,
                           pixelsRead |-> res.pixelsRead, masksRead |-> res.masksRead]
    /\ UNCHANGED <<movArgs, movBefore>>
    /\ UNCHANGED notMovie

MovieNext == DoDecompressMovieImage

InitMovie == MovieInit /\ ReaderIdle /\ RleIdle /\ PalIdle /\ ImgIdle /\ PlayerIdle

SpecMovie == InitMovie /\ [][MovieNext]_vars

\* ceil(h / 4)
MovBands(h) == (h + 3) \div 4

\* The band loop of the call ended after ceil(h / 4) bands, having consumed
\* that many line records of the command stream.
MovieTerminated ==
    /\ movResult.status = "ok"
    /\ movResult.bands = MovBands(movSurface.h)
    /\ movResult.cmdRead = MovBands(movSurface.h) * movArgs.lineSize

\* C17: for every surface height h >= 1, multiples of 4 or not, the band
\* loop of decompressMovieImage() terminates after exactly ceil(h / 4) bands
\* and consumes exactly ceil(h / 4) line records of the command stream.
C17_MovieTerminates == movDone => MovieTerminated

\* The same for the heights that are a multiple of 4.
C17_MovieTerminatesAligned == (movDone /\ movSurface.h % 4 = 0) => MovieTerminated

MovAlignW == (movSurface.w + 3) \div 4

\* The surface, pixel position and mask position opcode number k found.
MovDestBefore(k) == IF k = 1 THEN movBefore ELSE movResult.cmds[k - 1].dest
MovPixelBefore(k) == IF k = 1 THEN 0 ELSE movResult.cmds[k - 1].pPixelBuf
MovMaskBefore(k) == IF k = 1 THEN 0 ELSE movResult.cmds[k - 1].pMaskBuf

\* Opcode number k stood at the block origin raster order gives it.
MovRasterOrder(k) ==
    /\ movResult.cmds[k].bx = 4 * ((k - 1) % MovAlignW)
    /\ movResult.cmds[k].by = 4 * ((k - 1) \div MovAlignW)

\* Opcode number k, one of 0, 1, 2, wrote cell (i, j) of its block to pixel
\* (bx + i, by + j) where that lies inside the raster, and changed no other
\* pixel; opcode 3 changed no pixel and read no pixel or mask byte.
MovClipped(k) ==
    LET c == movResult.cmds[k]
        w == movSurface.w
        h == movSurface.h
    IN /\ Len(c.dest) = w * h
       /\ \A x \in 0..w - 1, y \in 0..h - 1 :
             c.dest[y * w + x + 1] =
                IF c.cmd # 3 /\ x \in c.bx..c.bx + 3 /\ y \in c.by..c.by + 3
                THEN c.cells[4 * (y - c.by) + (x - c.bx) + 1]
                ELSE MovDestBefore(k)[y * w + x + 1]
       /\ c.cmd = 3 => /\ c.pPixelBuf = MovPixelBefore(k)
                       /\ c.pMaskBuf = MovMaskBefore(k)

\* C19: the block origins of decompressMovieImage() advance in raster order,
\* 4 pixels per opcode, wrapping to the next band after ceil(width / 4)
\* blocks; an opcode 0, 1 or 2 writes cell (i, j) of its block to pixel
\* (bx + i, by + j) exactly when bx + i < width and by + j < height, and
\* nothing is written outside the width x height raster; opcode 3 writes no
\* pixel and consumes nothing from the pixel and mask streams, so its block
\* keeps the previous frame's content.
C19_MovieClipping ==
    movDone =>
        /\ ~movResult.outside
        /\ Len(movSurface.pixels) = movSurface.w * movSurface.h
        /\ \A k \in 1..Len(movResult.cmds) : MovRasterOrder(k) /\ MovClipped(k)
        /\ movResult.cmds # <<>>
              => movSurface.pixels = movResult.cmds[Len(movResult.cmds)].dest

\* A picture 5 pixels wide and 6 high was decoded: the second block of its
\* first band, one column wide, was written; of the two blocks of its second
\* band, two rows high, one was written and one skipped by opcode 3.
C19_Witness ==
    /\ movDone /\ movSurface.w = 5 /\ movSurface.h = 6
    /\ Len(movResult.cmds) >= 4
    /\ movResult.cmds[2].cmd # 3
    /\ movResult.cmds[2].dest # MovDestBefore(2)
    /\ \E k \in 3..4 : movResult.cmds[k].cmd = 3
    /\ \E k \in 3..4 : movResult.cmds[k].cmd # 3 /\ movResult.cmds[k].dest # MovDestBefore(k)

(***************************************************************************)
(* PmvPlayer::play()                                                       *)
(***************************************************************************)

MaxFrames == 3
MaxEvents == 2

\* The image sub-chunk of a frame: a 26-byte header and the three streams.
MovieImage(seed, w, h, flags) ==
    LET a == ImageArgs(seed, w, h, FALSE, flags[1], flags[2], flags[3])
    IN [source |-> [i \in 1..26 |-> 0] \o a.source,
        imageChunkSize |-> 26 + Len(a.source),
        w |-> w, h |-> h,
        cmdOffs |-> 26 + a.cmdOffs, cmdFlags |-> a.cmdFlags,
        pixelOffs |-> 26 + a.pixelOffs, pixelFlags |-> a.pixelFlags,
        maskOffs |-> 26 + a.maskOffs, maskFlags |-> a.maskFlags,
        lineSize |-> a.lineSize]

\* An 'MFRM' chunk holding the given sections (<<>>: section absent).
FrameChunk(audio, pal, image) ==
    LET audioLen == IF audio = <<>> THEN 0 ELSE 12
        palLen == IF pal = <<>> THEN 0 ELSE 8 + Len(pal)
        imageLen == IF image = <<>> THEN 0 ELSE image.imageChunkSize
    IN [chunkType |-> "MFRM", truncated |-> FALSE,
        chunkSize |-> 20 + audioLen + palLen + imageLen,
        soundChunkOfs |-> IF audio = <<>> THEN 0 ELSE 28,
        palChunkOfs |-> IF pal = <<>> THEN 0 ELSE 28 + audioLen,
        imageDataOfs |-> IF image = <<>> THEN 0 ELSE 28 + audioLen + palLen,
        audio |-> audio, pal |-> pal, image |-> image]

\* The frames the movies are made of: image only; audio only; RLE image and
\* audio; audio, palette patch and image; image whose pixel flags carry a reserved
\* bit; nothing at all.
FrameKind(k, w, h) ==
    CASE k = 1 -> FrameChunk(<<>>, <<>>, MovieImage(0, w, h, <<0, 0, 0>>))
      [] k = 2 -> FrameChunk(<<4, 2>>, <<>>, <<>>)
      [] k = 3 -> FrameChunk(<<8, 1>>, <<>>, MovieImage(1, w, h, <<1, 1, 1>>))
      [] k = 4 -> FrameChunk(<<4, 1>>, <<1, 5, 10, 11, 12, 13, 14, 15, 255, 255>>,
                             MovieImage(2, w, h, <<0, 0, 0>>))
      [] k = 5 -> FrameChunk(<<>>, <<>>, MovieImage(0, w, h, <<0, 4, 0>>))
      [] k = 6 -> FrameChunk(<<>>, <<>>, <<>>)

FrameKindAt(f, k) == ((2 * f.seed + k - 1) % 6) + 1

\* The chunks after the header of the file f: f.n frames, the one at
\* f.defectAt (if any) carrying an unknown tag or cut short by the end of
\* the file.
MovieChunks(f) ==
    [k \in 1..f.n |->
        LET c == FrameKind(FrameKindAt(f, k), f.dims[1], f.dims[2])
        IN IF k # f.defectAt THEN c
           ELSE IF f.defect = "tag" THEN [c EXCEPT !.chunkType = "JUNK"]
           ELSE [c EXCEPT !.truncated = TRUE]]

SoundFreqs == <<11127, 22254, 8000>>

\* What load() and decode_frame() find in the file f.
MovieOf(f) ==
    [opens |-> f.opens, tag1 |-> f.tag1, tag2 |-> f.tag2,
     frameDelay |-> f.frameDelay, frameCount |-> f.frameCount,
     soundFreq |-> SoundFreqs[f.seed + 1], palette |-> InitialPalette,
     chunks |-> MovieChunks(f)]

MovieDims == {<<4, 4>>, <<5, 6>>}
FrameDelays == {0, 100}
DecodeMs == {0, 150}

\* Files whose header is in order.
GoodFiles ==
    {[opens |-> TRUE, tag1 |-> "MOVE", tag2 |-> "MHED", seed |-> s, n |-> n,
      defectAt |-> d[1], defect |-> d[2], frameCount |-> fc, frameDelay |-> fd,
      dims |-> dims] :
        s \in 0..2, n \in 0..MaxFrames,
        d \in ({0} \X {"none"}) \cup ((1..MaxFrames) \X {"tag", "short"}),
        fc \in 0..MaxFrames + 1, fd \in FrameDelays, dims \in MovieDims}

\* The files played: the header may declare one frame more or less than the
\* file holds; a file with a defective frame, or with the larger pictures,
\* declares what it holds and runs at 100 ms per frame.
PlayedFiles ==
    {f \in GoodFiles :
        /\ f.defectAt <= f.n
        /\ f.frameCount \in {f.n - 1, f.n, f.n + 1}
        /\ (f.n = 0 => f.seed = 0 /\ f.dims = <<4, 4>>)
        /\ (f.defectAt # 0 \/ f.dims # <<4, 4>>
              => f.frameCount = f.n /\ f.frameDelay = 100)
        /\ (f.defectAt # 0 => f.dims = <<4, 4>>)}

\* Files load() turns down: missing, or one of the two tags wrong.
BadFiles ==
    {[opens |-> h[1], tag1 |-> h[2], tag2 |-> h[3], seed |-> 0, n |-> 1,
      defectAt |-> 0, defect |-> "none", frameCount |-> 1, frameDelay |-> 100,
      dims |-> <<4, 4>>] :
        h \in {<<FALSE, "MOVE", "MHED">>, <<TRUE, "JUNK", "MHED">>,
               <<TRUE, "MOVE", "JUNK">>}}

Events ==
    {[type |-> "KEYDOWN", keycode |-> "ESCAPE"],
     [type |-> "KEYDOWN", keycode |-> "SPACE"],
     [type |-> "KEYUP", keycode |-> "ESCAPE"]}

PlayerInit ==
    /\ file \in PlayedFiles \cup BadFiles
    /\ player \in {PmvPlayer(garbage) : garbage \in {0, 999}}
    /\ sinks = NoSinks
    /\ pc = "idle"
    /\ aborted = FALSE /\ elapsed = 0 /\ result = TRUE /\ loaded = FALSE
    /\ events = <<>> /\ shouldQuit = FALSE /\ lastFrame = <<>> /\ escFrames = 0

\* What play() does from "close();" to "return !aborted;".
\* (pmvplayer.cpp 265-268)
CloseAndReturn(p, sk) ==
    /\ \E res \in {close(p, sk)} :
          /\ player' = res.p
          /\ sinks' = res.sk
    /\ result' = ~aborted
    /\ pc' = "returned"

\* bool PmvPlayer::play(filename), up to the first test of the loop.
\* (pmvplayer.cpp 230-234)
Play ==
    /\ pc \in {"idle", "returned"}
    /\ aborted' = FALSE
    /\ elapsed' = 0
    /\ lastFrame' = <<>>
    /\ escFrames' = 0
    /\ \E res \in {load(player, [NoSinks EXCEPT !.doubleFree = sinks.doubleFree],
                        MovieOf(file))} :
          /\ player' = res.p
          /\ sinks' = res.sk
          /\ loaded' = res.ok
          /\ IF res.ok
             THEN pc' = "loop" /\ result' = TRUE
             ELSE pc' = "returned" /\ result' = ~aborted'
    /\ UNCHANGED <<file, events, shouldQuit>>
    /\ UNCHANGED notPlayer

\* The test of the while loop; when it fails play() closes and returns.
\* (pmvplayer.cpp 236, 265-268)
LoopTest ==
    /\ pc = "loop"
    /\ IF playLoopCondition(player, shouldQuit, aborted)
       THEN pc' = "decode" /\ UNCHANGED <<player, sinks, result>>
       ELSE CloseAndReturn(player, sinks)
    /\ UNCHANGED <<file, escFrames, aborted, elapsed, loaded, events, shouldQuit, lastFrame>>
    /\ UNCHANGED notPlayer

\* An Escape key-down waits in the queue.
EscapePending ==
    \E i \in 1..Len(events) : events[i] = [type |-> "KEYDOWN", keycode |-> "ESCAPE"]

\* The pixels of the surface as decode_frame() finds it: those of the
\* surface at hand, else those of the surface it creates for the image of
\* the next chunk, else none.
SurfaceBefore(p, movie) ==
    IF p.surface # "null" THEN p.image.pixels
    ELSE IF StreamAtEnd(movie, p.fdPos) THEN <<>>
    ELSE IF movie.chunks[p.fdPos + 1].imageDataOfs = 0 THEN <<>>
    ELSE SurfaceCreate(movie.chunks[p.fdPos + 1].image.w,
                       movie.chunks[p.fdPos + 1].image.h).pixels

\* "if (!decode_frame()) break;" (pmvplayer.cpp 238-240); decoding takes d
\* milliseconds.
DecodeFrame ==
    /\ pc = "decode"
    /\ \E d \in DecodeMs : elapsed' = elapsed + d
    /\ \E res \in {decode_frame(player, sinks, MovieOf(file))} :
          /\ lastFrame' = [before |-> SurfaceBefore(player, MovieOf(file)),
                           after |-> IF res.p.surface = "null" THEN <<>>
                                     ELSE res.p.image.pixels,
                           ok |-> res.ok, status |-> res.status,
                           frameData |-> res.p.frameData,
                           frameDataSize |-> res.p.frameDataSize,
                           newFrameData |-> res.sk.newFrameData,
                           chunk |-> player.fdPos + 1]
          /\ escFrames' = IF EscapePending /\ res.ok THEN escFrames + 1
                          ELSE escFrames
          /\ IF res.status = "ub"
             THEN pc' = "crashed" /\ player' = res.p /\ sinks' = res.sk
                  /\ UNCHANGED result
             ELSE IF res.ok
             THEN pc' = "present" /\ player' = res.p /\ sinks' = res.sk
                  /\ UNCHANGED result
             ELSE CloseAndReturn(res.p, res.sk)
    /\ UNCHANGED <<file, aborted, loaded, events, shouldQuit>>
    /\ UNCHANGED notPlayer

\* The frame is on time: "g_system->delayMillis(delayTime);
\* updateScreen();" (pmvplayer.cpp 243-249)
PresentOnTime ==
    /\ pc = "present"
    /\ delayTime(player, elapsed) >= 0
    /\ elapsed' = elapsed + delayTime(player, elapsed)
    /\ sinks' = [sinks EXCEPT !.waited = delayTime(player, elapsed),
                              !.updateScreen = @ + 1]
    /\ pc' = "poll"
    /\ UNCHANGED <<file, escFrames, player, aborted, result, loaded, events, shouldQuit,
                   lastFrame>>
    /\ UNCHANGED notPlayer

\* The frame is late: the warning is printed, nothing is waited for.  The
\* warning divides by frameDelay; with frameDelay 0 the division is
\* undefined: the program stops there or goes on.
PresentLate ==
    /\ pc = "present"
    /\ delayTime(player, elapsed) < 0
    /\ \/ /\ player.frameDelay # 0
          /\ sinks' = [sinks EXCEPT !.waited = -1,
                                    !.updateScreen = @ + 1]
          /\ pc' = "poll"
       \/ /\ player.frameDelay = 0
          /\ sinks' = [sinks EXCEPT !.waited = -1,
                                    !.updateScreen = @ + 1]
          /\ pc' = "poll"
       \/ /\ player.frameDelay = 0
          /\ sinks' = sinks
          /\ pc' = "crashed"
    /\ UNCHANGED <<file, escFrames, player, aborted, elapsed, result, loaded, events, shouldQuit, lastFrame>>
    /\ UNCHANGED notPlayer

\* "while (pollEvent(event)) ..." (pmvplayer.cpp 252-262)
PollEvents ==
    /\ pc = "poll"
    /\ aborted' = pollEvents(events, aborted)
    /\ events' = <<>>
    /\ escFrames' = 0
    /\ pc' = "loop"
    /\ UNCHANGED <<file, player, sinks, elapsed, result, loaded, shouldQuit,
                   lastFrame>>
    /\ UNCHANGED notPlayer

\* PmvPlayer::~PmvPlayer() (pmvplayer.cpp 41-44)
Destroy ==
    /\ pc \in {"idle", "returned"}
    /\ \E res \in {close(player, sinks)} :
          /\ player' = res.p
          /\ sinks' = res.sk
    /\ pc' = "destroyed"
    /\ UNCHANGED <<file, escFrames, aborted, elapsed, result, loaded, events, shouldQuit,
                   lastFrame>>
    /\ UNCHANGED notPlayer

\* The user does something: an event joins the queue.
PushEvent ==
    /\ pc \in {"idle", "loop", "decode", "present", "poll"}
    /\ Len(events) < MaxEvents
    /\ \E e \in Events : events' = Append(events, e)
    /\ UNCHANGED <<file, escFrames, player, sinks, pc, aborted, elapsed, result, loaded, shouldQuit, lastFrame>>
    /\ UNCHANGED notPlayer

\* The engine is asked to quit.
RequestQuit ==
    /\ pc \in {"idle", "loop", "decode", "present", "poll"}
    /\ ~shouldQuit
    /\ shouldQuit' = TRUE
    /\ UNCHANGED <<file, escFrames, player, sinks, pc, aborted, elapsed, result, loaded, events, lastFrame>>
    /\ UNCHANGED notPlayer

PlayerNext ==
    \/ Play
    \/ LoopTest
    \/ DecodeFrame
    \/ PresentOnTime
    \/ PresentLate
    \/ PollEvents
    \/ Destroy
    \/ PushEvent
    \/ RequestQuit

InitPlayer == PlayerInit /\ ReaderIdle /\ RleIdle /\ PalIdle /\ ImgIdle /\ MovieIdle

SpecPlayer == InitPlayer /\ [][PlayerNext]_vars

PlayerTypeOK ==
    /\ pc \in {"idle", "loop", "decode", "present", "poll", "returned", "crashed",
               "destroyed"}
    /\ player.fd \in {"null", "live", "freed"}
    /\ player.frameNumber <= MaxFrames

\* The header of the file is in order, so load() succeeds.
HeaderOk == file.opens /\ file.tag1 = "MOVE" /\ file.tag2 = "MHED"

\* play() has returned after a load() that succeeded.
ReturnedAfterLoad == pc = "returned" /\ loaded

\* C1: whenever load() succeeded, play() has on return released the surface,
\* the frame buffer (capacity back to 0), the sound decoder state, the audio
\* stream and the file stream, in this order, each exactly once, and every
\* handle is null -- whichever condition ended the frame loop.
C1_TeardownOnReturn ==
    ReturnedAfterLoad =>
        /\ player.surface = "null"
        /\ player.frameData = "null" /\ player.frameDataSize = 0
        /\ player.soundDecoderData = "null"
        /\ player.audioStream = "null"
        /\ player.fd = "null"
        /\ sinks.releases = <<"surface", "frameData", "soundDecoderData", "audioStream", "fd">>
        /\ sinks.finish = 1 /\ sinks.stopHandle = 1
        /\ ~sinks.doubleFree

\* C1 witness: play() has returned because the second decode_frame() came
\* back false, after a first frame had created and blitted the surface.
C1_Witness ==
    /\ ReturnedAfterLoad
    /\ lastFrame # <<>> /\ ~lastFrame.ok /\ lastFrame.chunk = 2
    /\ sinks.copyRect = 1
    /\ player.surface = "null" /\ player.fd = "null"

\* C2 as the specification states it: a load() that fails leaves the stream
\* handle null, opens no audio stream, does not stop the mixer and does not
\* set the palette, and no later close() or play() releases the stream a
\* second time.
C2_FailedLoadLeavesNothing ==
    /\ (pc = "returned" /\ ~loaded) =>
          /\ player.fd = "null"
          /\ player.audioStream = "null"
          /\ player.soundDecoderData = "null"
          /\ sinks.stopAll = 0
          /\ sinks.setPalette = 0
    /\ ~sinks.doubleFree

\* The frames of the file that carry an image, resp. an audio offset.
ImageFrames == {k \in 1..file.n : MovieChunks(file)[k].imageDataOfs # 0}
AudioFrames == {k \in 1..file.n : MovieChunks(file)[k].soundChunkOfs # 0}

\* The header declares the frames the file holds, and each is a whole 'MFRM'
\* chunk.
WellFormedFile == HeaderOk /\ file.defectAt = 0 /\ file.frameCount = file.n

\* C3 as the specification states it: a well-formed file of N frames, played
\* with no quit request and no cancel key, is decoded frame by frame up to
\* frameNumber = N (never beyond frameCount), blits once per frame with an
\* image, queues one buffer per frame with audio, and play() returns true;
\* the playback does not end in any other way.
C3_WellFormedPlaysAll ==
    (WellFormedFile /\ pc # "idle" /\ ~shouldQuit /\ ~aborted) =>
        /\ player.frameNumber <= file.frameCount
        /\ pc # "crashed"
        /\ pc = "returned" =>
              /\ player.frameNumber = file.n
              /\ sinks.copyRect = Cardinality(ImageFrames)
              /\ Len(sinks.queueBuffer) = Cardinality(AudioFrames)
              /\ result = TRUE

\* The same for the playbacks that do not run into the undefined division
\* of the lag warning or into the band loop of a picture whose height is not
\* a multiple of 4.
C3_PlaysAllUnlessUndefined ==
    (WellFormedFile /\ pc \notin {"idle", "crashed"} /\ ~shouldQuit /\ ~aborted) =>
        /\ player.frameNumber <= file.frameCount
        /\ pc = "returned" =>
              /\ player.frameNumber = file.n
              /\ sinks.copyRect = Cardinality(ImageFrames)
              /\ Len(sinks.queueBuffer) = Cardinality(AudioFrames)
              /\ result = TRUE

EscapeKeyDown == [type |-> "KEYDOWN", keycode |-> "ESCAPE"]

\* C4: no frame is decoded or presented once aborted is set; the poll after
\* a frame sets aborted exactly when an Escape key-down is in the queue (no
\* other keycode, no other event type does); and with aborted set the next
\* step of play() is its return, with result false, no further frame
\* decoded or presented, and the surface and the stream released.
C4_EscapeAborts ==
    /\ [](pc \in {"decode", "present", "poll"} => ~aborted)
    /\ [][(pc = "poll" /\ pc' = "loop") =>
            aborted' = (\E i \in 1..Len(events) : events[i] = EscapeKeyDown)]_vars
    /\ [][(pc = "loop" /\ aborted /\ pc' # "loop") =>
            /\ pc' = "returned"
            /\ result' = FALSE
            /\ player'.frameNumber = player.frameNumber
            /\ sinks'.updateScreen = sinks.updateScreen
            /\ sinks'.copyRect = sinks.copyRect
            /\ player'.surface = "null" /\ player'.fd = "null"
            /\ sinks'.releases = <<"surface", "frameData", "soundDecoderData",
                                   "audioStream", "fd">>]_vars

\* C4 witness: Escape was polled after the first of three image frames;
\* play() has returned false with one frame decoded, presented and blitted
\* and everything released.
C4_Witness ==
    /\ pc = "returned" /\ loaded /\ aborted /\ result = FALSE
    /\ ~shouldQuit
    /\ WellFormedFile /\ file.n = 3 /\ file.seed = 0
    /\ player.frameNumber = 1 /\ sinks.updateScreen = 1 /\ sinks.copyRect = 1
    /\ player.surface = "null" /\ player.fd = "null"

\* The chunk the last decode_frame() worked on.
LastChunk == MovieChunks(file)[lastFrame.chunk]

\* The image sub-chunk of that chunk has one of bits 2-7 set in its pixel
\* or mask flags.
LastImageReserved ==
    /\ LastChunk.imageDataOfs # 0
    /\ \E k \in 2..7 : BitSet(LastChunk.image.pixelFlags, k)
                       \/ BitSet(LastChunk.image.maskFlags, k)

\* C5 as the specification states it: a frame whose image sub-chunk has a
\* reserved bit set in its pixel or mask flags makes the movie decoder
\* report an unsupported-format failure, and no pixel of the surface is
\* changed by that image.
C5_MovieFlagsRejected ==
    (pc = "present" /\ LastImageReserved) =>
        /\ sinks.errors >= 1
        /\ player.image.pixels = lastFrame.before

\* The chunk decode_frame() is about to read.
NextChunk == MovieChunks(file)[player.fdPos + 1]

\* The effects of a frame with the sections of chunk c, in the order audio,
\* palette, video, counter.
FrameEffects(c) ==
    (IF c.soundChunkOfs # 0 THEN <<"decompressSound", "queueBuffer">> ELSE <<>>)
    \o (IF c.palChunkOfs # 0 THEN <<"decompressPalette", "setRGBPalette">> ELSE <<>>)
    \o (IF c.imageDataOfs # 0 THEN <<"decompressMovieImage", "copyRectToScreen">> ELSE <<>>)
    \o <<"frameNumber++">>

Count(present) == IF present THEN 1 ELSE 0

\* C12: a decode_frame() that succeeds has applied the sections of its frame
\* in the order audio, palette (patch, then set), image (decode, then blit),
\* and last incremented frameNumber by exactly 1; a section whose offset is
\* zero has left its sink (audio queue, palette, surface and screen) alone.
C12_SectionOrder ==
    [][(pc = "decode" /\ pc' = "present") =>
          /\ sinks'.frameLog = FrameEffects(NextChunk)
          /\ player'.frameNumber = player.frameNumber + 1
          /\ Len(sinks'.queueBuffer) =
               Len(sinks.queueBuffer) + Count(NextChunk.soundChunkOfs # 0)
          /\ sinks'.setPalette = sinks.setPalette + Count(NextChunk.palChunkOfs # 0)
          /\ sinks'.copyRect = sinks.copyRect + Count(NextChunk.imageDataOfs # 0)
          /\ (NextChunk.palChunkOfs = 0 => player'.paletteRGB = player.paletteRGB)
          /\ (NextChunk.imageDataOfs = 0 =>
                player'.image = player.image /\ player'.surface = player.surface)]_vars

\* C12 witness: a frame with all three sections was decoded: sound queued,
\* palette patched and set, image decoded and blitted, counter incremented.
C12_Witness ==
    /\ pc = "present"
    /\ LastChunk.soundChunkOfs # 0 /\ LastChunk.palChunkOfs # 0
    /\ LastChunk.imageDataOfs # 0
    /\ sinks.frameLog = <<"decompressSound", "queueBuffer", "decompressPalette",
                          "setRGBPalette", "decompressMovieImage", "copyRectToScreen",
                          "frameNumber++">>
    /\ player.paletteRGB[16] = 10 /\ player.paletteRGB[21] = 15

\* The delay due after the frame just decoded: (N - 1) * frameDelay less the
\* time played so far.
DelayDue == (player.frameNumber - 1) * player.frameDelay - elapsed

\* What C13 says of the step of play() that follows a decoded frame: the
\* frame is presented (one updateScreen), after a wait of exactly the delay
\* due when that is not negative, else with the lag warning and no wait.
PresentsFrame ==
    /\ pc' = "poll"
    /\ sinks'.updateScreen = sinks.updateScreen + 1
    /\ IF DelayDue >= 0
       THEN sinks'.waited = DelayDue /\ elapsed' = elapsed + DelayDue
       ELSE sinks'.waited = -1 /\ elapsed' = elapsed

\* Every frame decoded so far has been presented.
NoFrameSkipped ==
    (loaded /\ pc \in {"loop", "decode", "poll", "returned"}) =>
        sinks.updateScreen = player.frameNumber

\* C13 as the specification states it: after each decoded frame play()
\* waits exactly (N - 1) * frameDelay - elapsed ms when that is not negative,
\* else does not wait and emits the lag warning; either way it presents the
\* frame, so updateScreen is called once per decoded frame, for every
\* frameDelay.
C13_FramePresented ==
    /\ [][(pc = "present" /\ pc' # "present") => PresentsFrame]_vars
    /\ []NoFrameSkipped

\* The same for the files whose frameDelay is not 0.
C13_FramePresentedNonZeroDelay ==
    /\ [][(pc = "present" /\ pc' # "present" /\ player.frameDelay # 0)
            => PresentsFrame]_vars
    /\ []NoFrameSkipped

\* The chunk decode_frame() is about to read is missing, carries another
\* tag than 'MFRM', or is cut short by the end of the file.
NextChunkDefective ==
    \/ player.fdPos >= file.n
    \/ NextChunk.chunkType # "MFRM"
    \/ NextChunk.truncated

\* C14: decode_frame() returns false exactly for a chunk that is missing,
\* wrongly tagged or cut short, and then nothing was queued to the audio
\* sink, palette and surface are as before, nothing was blitted and
\* frameNumber is unchanged; the loop ends, teardown runs and play() returns
\* the not-aborted result (true).
C14_FrameAllOrNothing ==
    /\ [][(pc = "decode" /\ NextChunkDefective) => pc' \in {"decode", "returned"}]_vars
    /\ [][(pc = "decode" /\ pc' = "returned") =>
            /\ NextChunkDefective
            /\ ~lastFrame'.ok
            /\ sinks'.queueBuffer = sinks.queueBuffer
            /\ sinks'.setPalette = sinks.setPalette
            /\ sinks'.copyRect = sinks.copyRect
            /\ sinks'.updateScreen = sinks.updateScreen
            /\ player'.paletteRGB = player.paletteRGB
            /\ lastFrame'.after = (IF player.surface = "null" THEN <<>>
                                   ELSE player.image.pixels)
            /\ player'.frameNumber = player.frameNumber
            /\ sinks'.releases = <<"surface", "frameData", "soundDecoderData",
                                   "audioStream", "fd">>
            /\ player'.surface = "null" /\ player'.fd = "null"
            /\ ~aborted /\ result' = TRUE]_vars

\* C14 witness: the second chunk of a file was cut short; the first frame's
\* picture was on the surface, decode_frame() returned false and play() has
\* returned true after one frame.
C14_Witness ==
    /\ pc = "returned" /\ loaded /\ result = TRUE
    /\ file.defectAt = 2 /\ file.defect = "short"
    /\ lastFrame # <<>> /\ lastFrame.chunk = 2 /\ ~lastFrame.ok
    /\ lastFrame.after # <<>> /\ lastFrame.after = lastFrame.before
    /\ player.frameNumber = 1 /\ sinks.copyRect = 1

\* A new frame starts when the loop test passes and decode_frame() is entered.
StartsFrame == pc = "loop" /\ pc' = "decode"

\* C15: from the moment an Escape key-down is enqueued (before the first
\* frame included) at most one further frame is decoded and presented
\* before the play loop exits: no more than one frame is decoded while the
\* key-down waits in the queue, the poll that takes it off the queue sets
\* aborted, and with aborted set no new frame starts.  Likewise once
\* shouldQuit() is true no new frame starts: only a frame already in
\* progress is completed.
C15_BoundedAbortLatency ==
    /\ [](escFrames <= 1)
    /\ [][(pc = "poll" /\ EscapePending /\ pc' = "loop") => aborted']_vars
    /\ [][(aborted \/ shouldQuit) => ~StartsFrame]_vars
    /\ [][(pc = "loop" /\ (aborted \/ shouldQuit) /\ pc' # pc) => pc' = "returned"]_vars

\* An Escape key-down was enqueued behind another event before a frame was
\* decoded; that one frame has been decoded and presented and the poll is
\* next.
C15_Witness ==
    /\ pc = "poll" /\ escFrames = 1 /\ ~aborted /\ ~shouldQuit
    /\ Len(events) = 2 /\ events[2] = EscapeKeyDown /\ events[1] # EscapeKeyDown
    /\ player.frameNumber < player.frameCount

\* decode_frame() is about to read the payload of an 'MFRM' chunk.
ReadsChunk == pc = "decode" /\ player.fdPos < file.n /\ NextChunk.chunkType = "MFRM"

\* C16: the frame buffer only grows within a session.  A decode_frame() that
\* reads a chunk allocates a buffer exactly when there is none or the chunk
\* is larger than the capacity, the new capacity then being the chunk size;
\* the capacity of an existing buffer never decreases; the chunk is read
\* into a buffer at least as large as the chunk.  A decode_frame() that
\* reads no chunk, and every step of play() between two decodes, leaves the
\* buffer alone.  After close() the buffer is null and the capacity 0.
C16_FrameBufferGrowOnly ==
    /\ [][(ReadsChunk /\ pc' # pc) =>
            LET realloc == lastFrame'.newFrameData # sinks.newFrameData
            IN /\ lastFrame'.newFrameData \in {sinks.newFrameData, sinks.newFrameData + 1}
               /\ realloc <=> (player.frameData = "null"
                                \/ NextChunk.chunkSize > player.frameDataSize)
               /\ realloc => lastFrame'.frameDataSize = NextChunk.chunkSize
               /\ ~realloc => lastFrame'.frameDataSize = player.frameDataSize
               /\ player.frameData # "null"
                     => lastFrame'.frameDataSize >= player.frameDataSize
               /\ lastFrame'.frameData = "live"
               /\ lastFrame'.frameDataSize >= NextChunk.chunkSize]_vars
    /\ [][(pc = "decode" /\ ~ReadsChunk /\ pc' # pc) =>
            /\ lastFrame'.newFrameData = sinks.newFrameData
            /\ lastFrame'.frameData = player.frameData
            /\ lastFrame'.frameDataSize = player.frameDataSize]_vars
    /\ [][(pc # "decode" /\ pc' \notin {"returned", "destroyed"}) =>
            /\ player'.frameData = player.frameData
            /\ player'.frameDataSize = player.frameDataSize
            /\ sinks'.newFrameData \in {sinks.newFrameData, 0}]_vars
    /\ []((ReturnedAfterLoad \/ pc = "destroyed") =>
            player.frameData = "null" /\ player.frameDataSize = 0)

\* The third frame of a session has been decoded into the buffer of the
\* second, which had replaced the smaller buffer of the first.
C16_Witness ==
    /\ pc = "present" /\ player.frameNumber = 3
    /\ sinks.newFrameData = 2
    /\ player.frameDataSize > MovieChunks(file)[3].chunkSize
    /\ player.frameDataSize = MovieChunks(file)[2].chunkSize
    /\ player.frameDataSize > MovieChunks(file)[1].chunkSize

\* The frame just decoded is behind schedule: the delay due is negative.
LateFrame == pc = "present" /\ DelayDue < 0

\* The step of play() that follows a late frame.
LateStep == LateFrame /\ pc' # pc

\* C21: the lag diagnostic is not fatal, whatever frameDelay the header
\* holds, 0 included, and whatever time has elapsed: a frame behind schedule
\* is still presented (one updateScreen, no wait) and playback goes on to
\* the event poll, and the diagnostic, which divides the lag by frameDelay,
\* is never computed with frameDelay = 0.
C21_LagNonFatal ==
    /\ [][LateStep => player.frameDelay # 0]_vars
    /\ [][LateStep => /\ pc' = "poll"
                      /\ sinks'.updateScreen = sinks.updateScreen + 1
                      /\ sinks'.waited = -1
                      /\ elapsed' = elapsed]_vars

\* The same for the headers whose frameDelay is not 0.
C21_LagNonFatalNonZeroDelay ==
    [][(LateStep /\ player.frameDelay # 0) =>
          /\ pc' = "poll"
          /\ sinks'.updateScreen = sinks.updateScreen + 1
          /\ sinks'.waited = -1
          /\ elapsed' = elapsed]_vars

====
